---------------------------- MODULE Spec2Model ----------------------------
(***************************************************************************)
(* A model of the azure-iot-sdk client layer: the confirmation tracker of  *)
(* IotHubClient (send_d2c_message, twin_report, spawn_confirmation, the    *)
(* two native confirmation callbacks, shutdown), its observer dispatch     *)
(* (the four native callbacks and the consumer side of their channels),    *)
(* the life of a client (iothub_init, the constructors, set_callbacks,     *)
(* Drop), the callbacks of the EventHandler-based IotHubModuleClient of    *)
(* client.rs, and iot_hub_init / new of the client of lib.rs.              *)
(*                                                                         *)
(* Time is discrete.  A timer is a count-down of ticks; a tick cannot pass *)
(* while a timer that has run out has not been served (the runtime serves  *)
(* expired timers within the tick).  Two timers that run out in the same   *)
(* tick are served in either order.                                        *)
(***************************************************************************)
EXTENDS Integers, Sequences, FiniteSets

(* ------------------------------ bounds -------------------------------- *)

\* number of send_d2c_message / twin_report calls in one run
MaxSends == 2

\* number of native events (connection status, twin, C2D, direct method)
MaxEvents == 3

\* capacity of each observer channel (mpsc::channel(N))
ChanCap == 2

\* number of twin_async calls in one run
MaxTwinAsync == 1

\* number of sends in the runs that follow the confirmation set alone
MaxSpawns == 3

\* the configured confirmation timeout, in ticks
\* (AZURE_SDK_CONFIRMATION_TIMEOUT_IN_SECS)
ConfTimeout == 2

\* number of clients one process constructs, one after the other
MaxClients == 2

VARIABLES
    client,             \* which client type the application constructed
    observers,          \* IotHubClientBuilder: the observers supplied
    sends,              \* one record per send_d2c_message / twin_report call
    confirmation_set,   \* IotHubClient.confirmation_set: ids of tracked waiters
    shutPc,             \* position of shutdown(): idle, draining, joining, returned
    sleft,              \* ticks left of shutdown's drain timeout
    shutElapsed,        \* ticks passed since the running shutdown() was called
    crashed,            \* "none", or the panic that ended the process
    nativePc,           \* position of the native SDK's callback thread
    nativeEv,           \* the event the native thread is delivering
    chan,               \* observer channels: kind -> queue of events
    rxOpen,             \* kind -> the consumer still holds the receiver
    rt,                 \* one-shot reply channel of the round trip in progress
    rtVal,              \* the consumer's reply
    lastRt,             \* what the last C2D / direct-method callback returned
    nEvents,            \* native events so far
    propsValid,         \* IncomingMessageObserver.properties hold no NUL byte
    lastIn,             \* the arguments of the last native callback invocation
    twinRequests,       \* full-twin requests the native layer has not answered
    twinAsyncResult,    \* what the last twin_async call returned
    nTwinAsync,         \* twin_async calls so far
    ehOut,              \* EventHandler client: last direct-method response
    builder,            \* IotMessageBuilder: the fields set by the application
    buildResult,        \* what IotMessageBuilder::build returned
    msg,                \* the outgoing IotMessage
    heap,               \* native message handles created so far
    createResult,       \* what the last create_outgoing_handle returned
    decoded,            \* the IotMessage made by from_incoming_handle
    dropped,            \* the outgoing IotMessage was dropped
    decodedDropped,     \* the IotMessage made by from_incoming_handle was dropped
    process,            \* the process-wide statics and the native SDK's global state
    nativeClient,       \* the native client handle and the callbacks it holds
    life                \* the client value: where it is in its life, its observer boxes

vars == << client, observers, sends, confirmation_set, shutPc, sleft,
           shutElapsed, crashed, nativePc, nativeEv, chan, rxOpen, rt, rtVal,
           lastRt, nEvents, propsValid,
           lastIn, twinRequests, twinAsyncResult, nTwinAsync, ehOut,
           builder, buildResult, msg, heap, createResult, decoded, dropped,
           decodedDropped, process, nativeClient, life >>

lifeVars == << process, nativeClient, life >>
trackerVars == << sends, confirmation_set, shutPc, sleft, shutElapsed >>
dispatchVars == << nativePc, nativeEv, chan, rxOpen, rt, rtVal, lastRt, nEvents,
                  propsValid, lastIn, twinRequests, twinAsyncResult,
                  nTwinAsync >>
twinAsyncVars == << twinRequests, twinAsyncResult, nTwinAsync >>
messageVars == << builder, buildResult, msg, heap, createResult, decoded,
                 dropped, decodedDropped >>

(* --------------------------- confirmation tracker --------------------- *)

Kinds == {"d2c", "twin"}

\* IOTHUB_CLIENT_CONFIRMATION_RESULT: OK, BECAUSE_DESTROY, MESSAGE_TIMEOUT,
\* ERROR, and a value outside the enum
D2cStatuses == {"OK", "BECAUSE_DESTROY", "MESSAGE_TIMEOUT", "ERROR", "OTHER"}

\* status codes of the reported-state callback
TwinStatuses == {204, 200, 400}

Pending == {"spawned", "waiting"}
Completed == {"success", "failed", "timedout"}

CONFIRMATION_TIMEOUT_DEFAULT_IN_SECS == 30

\* str::parse::<u64> on a text of ASCII codes: an optional '+', then one or
\* more digits (the texts used here are too short to overflow)
parse_u64_ok(text) ==
    LET digits == IF text # << >> /\ Head(text) = 43 THEN Tail(text) ELSE text
    IN  /\ digits # << >>
        /\ \A k \in 1..Len(digits) : digits[k] \in 48..57

RECURSIVE digits_value(_)
digits_value(digits) ==
    IF digits = << >> THEN 0
    ELSE 10 * digits_value(SubSeq(digits, 1, Len(digits) - 1))
         + (digits[Len(digits)] - 48)

parse_u64(text) ==
    digits_value(IF Head(text) = 43 THEN Tail(text) ELSE text)

\* values of the environment variable AZURE_SDK_CONFIRMATION_TIMEOUT_IN_SECS:
\* unset, "", "0", "5", "12", "x", "-1", "+3", "3 "
ConfEnvs ==
    { [set |-> FALSE, text |-> << >>] } \cup
    { [set |-> TRUE, text |-> t] :
        t \in { << >>, << 48 >>, << 53 >>, << 49, 50 >>, << 120 >>,
                << 45, 49 >>, << 43, 51 >>, << 51, 32 >> } }

\* the environment of the run: the variable holds the digit of ConfTimeout
ConfEnv == [set |-> TRUE, text |-> << 48 + ConfTimeout >>]

\* get_confirmation_timeout under an environment: the parsed value of the
\* variable, the default when it is unset or does not parse
confirmation_timeout_in_secs(env) ==
    IF env.set /\ parse_u64_ok(env.text) THEN parse_u64(env.text)
    ELSE CONFIRMATION_TIMEOUT_DEFAULT_IN_SECS

get_confirmation_timeout == confirmation_timeout_in_secs(ConfEnv)

\* the bound of shutdown's timeout(.., join_all)
drain_bound(env) == confirmation_timeout_in_secs(env)

\* the bound of the waiter's timeout(.., rx)
confirmation_wait(env) == confirmation_timeout_in_secs(env)

\* the result of the match in the waiter task, from what timeout(.., rx) gave:
\* "OkTrue"/"OkFalse" a value was received, "Closed" the sender was dropped,
\* "Elapsed" the timeout fired
waiter_outcome(r) ==
    IF r = "OkFalse" THEN "failed"
    ELSE IF r = "Elapsed" THEN "timedout"
    ELSE "success"

\* c_d2c_confirmation_callback: the value sent for a native status
d2c_succeeded(status) == status = "OK"

\* a reported-state callback that takes every 2xx code for success
twin_succeeded_any_2xx(status_code) == status_code \in {200, 204}

\* c_reported_twin_callback: the value sent for a status code
twin_succeeded(status_code) == status_code = 204

\* the receiving half of send i's one-shot channel is alive while the waiter
\* task holds it
rx_alive(i) == sends[i].w \in Pending

\* a spawn_confirmation that does not poll the set
reaped_none(set) == {}

\* spawn_confirmation: poll_join_next until it is not Ready(Some(Ok)): every
\* waiter that has completed leaves the set, none is waited for; then the new
\* waiter is spawned
reaped(set) == { i \in set : sends[i].w \in Completed }

\* a spawn_confirmation that polls the set and spawns nothing
spawn_confirmation_reap_only(set, id) == set \ reaped(set)

spawn_confirmation(set, id) == (set \ reaped(set)) \cup {id}

\* a send that does not propagate the error of the native send call
send_result_ignoring_native(encOk, natOk) == IF encOk THEN "Ok" ELSE "Err"

\* a send that reports success whatever happened
send_result_always_ok(encOk, natOk) == "Ok"

\* what send_d2c_message / twin_report return: `?` on the encoding
\* (create_outgoing_handle, CString::new) and on the native send call
send_result(encOk, natOk) == IF encOk /\ natOk THEN "Ok" ELSE "Err"

FacadeIdle == shutPc \in {"idle", "returned"}

NewSend(kind, encOk, natOk) ==
    [ kind |-> kind,
      res  |-> send_result(encOk, natOk),
      \* Box::into_raw runs as an argument of the native call, after encoding
      ctx  |-> IF ~encOk THEN "none" ELSE IF natOk THEN "boxed" ELSE "leaked",
      sig  |-> "none",
      w    |-> IF send_result(encOk, natOk) = "Ok" THEN "spawned" ELSE "none",
      left |-> 0 ]

\* send_d2c_message / twin_report, in a run of at most max sends
SubmitUpTo(max, kind, encOk, natOk) ==
    /\ client = "IotHubClient"
    /\ crashed = "none"
    /\ FacadeIdle
    /\ Len(sends) < max
    /\ sends' = Append(sends, NewSend(kind, encOk, natOk))
    /\ confirmation_set' =
          IF send_result(encOk, natOk) = "Ok"
          THEN spawn_confirmation(confirmation_set, Len(sends) + 1)
          ELSE confirmation_set
    /\ UNCHANGED << client, observers, shutPc, sleft, shutElapsed, crashed,
                    ehOut >>
    /\ UNCHANGED dispatchVars
    /\ UNCHANGED messageVars
    /\ UNCHANGED lifeVars

Submit(kind, encOk, natOk) == SubmitUpTo(MaxSends, kind, encOk, natOk)

send_d2c_message == \E encOk \in BOOLEAN, natOk \in BOOLEAN :
    Submit("d2c", encOk, natOk)

twin_report == \E encOk \in BOOLEAN, natOk \in BOOLEAN :
    Submit("twin", encOk, natOk)

\* the sends of a run that follows the confirmation set alone
send_d2c_message_spawns == \E encOk \in BOOLEAN, natOk \in BOOLEAN :
    SubmitUpTo(MaxSpawns, "d2c", encOk, natOk)

\* the waiter task is polled for the first time: timeout(..) is created
waiter_start(i) ==
    /\ crashed = "none"
    /\ sends[i].w = "spawned"
    /\ sends' = [sends EXCEPT ![i].w = "waiting",
                              ![i].left = confirmation_wait(ConfEnv)]
    /\ UNCHANGED << client, observers, confirmation_set, shutPc, sleft,
                    shutElapsed, crashed, ehOut >>
    /\ UNCHANGED dispatchVars
    /\ UNCHANGED messageVars
    /\ UNCHANGED lifeVars

\* timeout(..) polls rx first: a value that is there wins over the deadline
waiter_recv(i) ==
    /\ crashed = "none"
    /\ sends[i].w = "waiting"
    /\ sends[i].sig # "none"
    /\ sends' = [sends EXCEPT
          ![i].w = waiter_outcome(CASE sends[i].sig = "true" -> "OkTrue"
                                    [] sends[i].sig = "false" -> "OkFalse"
                                    [] sends[i].sig = "closed" -> "Closed"),
          ![i].left = 0]
    /\ UNCHANGED << client, observers, confirmation_set, shutPc, sleft,
                    shutElapsed, crashed, ehOut >>
    /\ UNCHANGED dispatchVars
    /\ UNCHANGED messageVars
    /\ UNCHANGED lifeVars

waiter_timeout(i) ==
    /\ crashed = "none"
    /\ sends[i].w = "waiting"
    /\ sends[i].sig = "none"
    /\ sends[i].left = 0
    /\ sends' = [sends EXCEPT ![i].w = waiter_outcome("Elapsed")]
    /\ UNCHANGED << client, observers, confirmation_set, shutPc, sleft,
                    shutElapsed, crashed, ehOut >>
    /\ UNCHANGED dispatchVars
    /\ UNCHANGED messageVars
    /\ UNCHANGED lifeVars

\* tx_confirm.send(v) of a confirmation callback: Box::from_raw reclaims the
\* context; the send fails when the receiver is gone
ConfirmationSend(i, v, onClosed) ==
    /\ client = "IotHubClient"
    /\ crashed = "none"
    /\ nativePc = "idle"
    /\ sends[i].ctx = "boxed"
    /\ IF rx_alive(i)
       THEN /\ sends' = [sends EXCEPT ![i].ctx = "reclaimed",
                                      ![i].sig = IF v THEN "true" ELSE "false"]
            /\ crashed' = crashed
       ELSE /\ sends' = [sends EXCEPT ![i].ctx = "reclaimed"]
            /\ crashed' = onClosed
    /\ UNCHANGED << client, observers, confirmation_set, shutPc, sleft,
                    shutElapsed, ehOut >>
    /\ UNCHANGED messageVars
    /\ UNCHANGED lifeVars

\* the sender of send i's one-shot channel is dropped without a value having
\* been sent: the receiver is woken with RecvError
sender_dropped(i) ==
    /\ client = "IotHubClient"
    /\ crashed = "none"
    /\ sends[i].ctx = "boxed"
    /\ sends' = [sends EXCEPT ![i].ctx = "dropped",
                              ![i].sig = IF rx_alive(i) THEN "closed" ELSE @]
    /\ UNCHANGED << client, observers, confirmation_set, shutPc, sleft,
                    shutElapsed, crashed, ehOut >>
    /\ UNCHANGED dispatchVars
    /\ UNCHANGED messageVars
    /\ UNCHANGED lifeVars

\* c_d2c_confirmation_callback invoked with a status and the context of
\* send i.  .expect(..) on the send: a panic in an extern "C" function aborts
d2c_confirmation(i, status) ==
    /\ sends[i].kind = "d2c"
    /\ ConfirmationSend(i, d2c_succeeded(status), "d2c_confirmation_expect")

\* c_reported_twin_callback invoked with a status code and the context of
\* send i.  if .. is_err() { error!(..) }: logged, nothing else
reported_twin(i, status_code) ==
    /\ sends[i].kind = "twin"
    /\ ConfirmationSend(i, twin_succeeded(status_code), "none")

c_d2c_confirmation_callback(i) == \E status \in D2cStatuses :
    /\ d2c_confirmation(i, status)
    /\ UNCHANGED dispatchVars

c_reported_twin_callback(i) == \E status_code \in TwinStatuses :
    /\ reported_twin(i, status_code)
    /\ UNCHANGED dispatchVars

\* the same two callbacks, the arguments of the invocation kept in lastIn
c_d2c_confirmation_callback_args(i) == \E status \in D2cStatuses :
    /\ d2c_confirmation(i, status)
    /\ lastIn' = [kind |-> "d2c_confirmation", a |-> status, b |-> i]
    /\ UNCHANGED << nativePc, nativeEv, chan, rxOpen, rt, rtVal, lastRt,
                    nEvents, propsValid >>
    /\ UNCHANGED twinAsyncVars

c_reported_twin_callback_args(i) == \E status_code \in TwinStatuses :
    /\ reported_twin(i, status_code)
    /\ lastIn' = [kind |-> "reported_twin", a |-> status_code, b |-> i]
    /\ UNCHANGED << nativePc, nativeEv, chan, rxOpen, rt, rtVal, lastRt,
                    nEvents, propsValid >>
    /\ UNCHANGED twinAsyncVars

\* the native layer invokes a confirmation callback a second time with the
\* context of send i.  Box::from_raw takes ownership of memory the first
\* invocation has freed, and the Sender read from it refers to a channel it
\* no longer owns: the behaviour is undefined.  The outcomes kept are the
\* abort of the allocator on the double free, a second write of the
\* channel's value, and no visible effect (the value written is the one
\* already there, or the waiter has consumed it).
duplicate_confirmation_callback(i) ==
    /\ client = "IotHubClient"
    /\ crashed = "none"
    /\ nativePc = "idle"
    /\ sends[i].ctx = "reclaimed"
    /\ \/ /\ crashed' = "double_free"
          /\ UNCHANGED sends
       \/ /\ \E v \in {"true", "false"} :
                sends' = IF rx_alive(i) THEN [sends EXCEPT ![i].sig = v]
                         ELSE sends
          /\ UNCHANGED crashed
    /\ UNCHANGED << client, observers, confirmation_set, shutPc, sleft,
                    shutElapsed, ehOut >>
    /\ UNCHANGED dispatchVars
    /\ UNCHANGED messageVars
    /\ UNCHANGED lifeVars

(* ------------------------------- shutdown ----------------------------- *)

\* a shutdown that awaits join_all without a timeout
shutdown_timer_never_due == FALSE

\* a shutdown whose drain bound is over as soon as it begins
shutdown_timer_due_at_once == shutPc = "draining"

\* the deadline of timeout(.., join_all) is checked only when join_all is
\* pending: the set is not empty and none of its waiters has completed
shutdown_timer_due ==
    /\ shutPc = "draining"
    /\ sleft = 0

shutdown_begin ==
    /\ client = "IotHubClient"
    /\ crashed = "none"
    /\ FacadeIdle
    /\ shutPc' = "draining"
    /\ sleft' = drain_bound(ConfEnv)
    /\ shutElapsed' = 0
    /\ UNCHANGED << client, observers, sends, confirmation_set, crashed, ehOut >>
    /\ UNCHANGED dispatchVars
    /\ UNCHANGED messageVars
    /\ UNCHANGED lifeVars

\* join_next() returned Some: a waiter that is no longer pending leaves the set
shutdown_join_next(i) ==
    /\ crashed = "none"
    /\ shutPc \in {"draining", "joining"}
    /\ i \in confirmation_set
    /\ sends[i].w \notin Pending
    /\ confirmation_set' = confirmation_set \ {i}
    /\ UNCHANGED << client, observers, sends, shutPc, sleft, shutElapsed,
                    crashed, ehOut >>
    /\ UNCHANGED dispatchVars
    /\ UNCHANGED messageVars
    /\ UNCHANGED lifeVars

\* join_next() returned None within the timeout
shutdown_drained ==
    /\ crashed = "none"
    /\ shutPc = "draining"
    /\ confirmation_set = {}
    /\ shutPc' = "joining"
    /\ sleft' = 0
    /\ UNCHANGED << client, observers, sends, confirmation_set,
                    shutElapsed, crashed, ehOut >>
    /\ UNCHANGED dispatchVars
    /\ UNCHANGED messageVars
    /\ UNCHANGED lifeVars

\* JoinSet::abort_all: every waiter of the set that is still pending is
\* cancelled
abort_all(S, set) ==
    [ i \in DOMAIN S |->
        IF i \in set /\ S[i].w \in Pending
        THEN [S[i] EXCEPT !.w = "aborted", !.left = 0]
        ELSE S[i] ]

\* the timeout elapsed: warn!, then confirmation_set.shutdown() aborts
shutdown_timeout ==
    /\ crashed = "none"
    /\ shutdown_timer_due
    /\ confirmation_set # {}
    /\ \A i \in confirmation_set : sends[i].w \in Pending
    /\ sends' = abort_all(sends, confirmation_set)
    /\ shutPc' = "joining"
    /\ UNCHANGED << client, observers, confirmation_set, sleft, shutElapsed,
                    crashed, ehOut >>
    /\ UNCHANGED dispatchVars
    /\ UNCHANGED messageVars
    /\ UNCHANGED lifeVars

\* confirmation_set.shutdown() found the set empty: shutdown() returns
shutdown_return ==
    /\ crashed = "none"
    /\ shutPc = "joining"
    /\ confirmation_set = {}
    /\ shutPc' = "returned"
    /\ UNCHANGED << client, observers, sends, confirmation_set, sleft,
                    shutElapsed, crashed, ehOut >>
    /\ UNCHANGED dispatchVars
    /\ UNCHANGED messageVars
    /\ UNCHANGED lifeVars

\* shutdown is suspended in join_next().await of its drain loop: every
\* waiter of the set is pending.  The RefMut made by
\* confirmation_set.borrow_mut() in the loop condition lives across the await.
shutdown_suspended ==
    /\ shutPc = "draining"
    /\ confirmation_set # {}
    /\ \A i \in confirmation_set : sends[i].w \in Pending

\* send_d2c_message / twin_report called on the same client by another
\* future of the task (join!, select!) while shutdown is suspended.  Encoding
\* and the native send call run as usual; spawn_confirmation then calls
\* confirmation_set.borrow() and panics: already mutably borrowed.
SubmitWhileSuspended(kind, encOk, natOk) ==
    /\ client = "IotHubClient"
    /\ crashed = "none"
    /\ shutdown_suspended
    /\ Len(sends) < MaxSends
    /\ sends' = Append(sends,
          [NewSend(kind, encOk, natOk) EXCEPT
              !.w = "none",
              !.res = IF send_result(encOk, natOk) = "Ok" THEN "none" ELSE @])
    /\ crashed' = IF send_result(encOk, natOk) = "Ok"
                  THEN "already_borrowed" ELSE crashed
    /\ UNCHANGED << client, observers, confirmation_set, shutPc, sleft,
                    shutElapsed, ehOut >>
    /\ UNCHANGED dispatchVars
    /\ UNCHANGED messageVars
    /\ UNCHANGED lifeVars

send_d2c_message_while_suspended == \E encOk \in BOOLEAN, natOk \in BOOLEAN :
    SubmitWhileSuspended("d2c", encOk, natOk)

twin_report_while_suspended == \E encOk \in BOOLEAN, natOk \in BOOLEAN :
    SubmitWhileSuspended("twin", encOk, natOk)

(* --------------------------------- time ------------------------------- *)

Waiting == { i \in DOMAIN sends : sends[i].w = "waiting" }

TimerRunning == Waiting # {} \/ shutPc = "draining"

\* a timer that ran out, or work that takes no time, is served before the
\* next tick
TimerDue ==
    \/ \E i \in Waiting : sends[i].left = 0
    \/ shutdown_timer_due
    \/ shutPc = "joining"

Tick ==
    /\ crashed = "none"
    /\ TimerRunning
    /\ ~TimerDue
    /\ sends' = [ i \in DOMAIN sends |->
                    IF sends[i].w = "waiting"
                    THEN [sends[i] EXCEPT !.left = sends[i].left - 1]
                    ELSE sends[i] ]
    /\ sleft' = IF shutPc = "draining" /\ sleft > 0 THEN sleft - 1 ELSE sleft
    /\ shutElapsed' = IF shutPc = "draining" /\ shutElapsed <= get_confirmation_timeout
                      THEN shutElapsed + 1 ELSE shutElapsed
    /\ UNCHANGED << client, observers, confirmation_set, shutPc, crashed, ehOut >>
    /\ UNCHANGED dispatchVars
    /\ UNCHANGED messageVars
    /\ UNCHANGED lifeVars

(* ----------------------------- observer dispatch ---------------------- *)

ObserverKinds == {"conn", "twin", "c2d", "dm"}
RoundTrip == {"c2d", "dm"}

NoEv == [kind |-> "none", id |-> 0, val |-> "none"]

\* arguments of a callback: a, b are its two decoded-from arguments
NoIn == [kind |-> "none", a |-> "none", b |-> "none"]

METHOD_RESPONSE_SUCCESS == 200
METHOD_RESPONSE_ERROR == 401

\* the response buffer: "{ }", the text of a JSON value, or a JSON string
EmptyObject == [form |-> "empty_object", text |-> "{ }"]
NoBody == [form |-> "none", text |-> ""]

NoRt == [kind |-> "none", cause |-> "none", arg |-> "", disp |-> "none",
         status |-> 0, body |-> NoBody]

\* a set_callbacks that registers every callback, observer or not
registered_always(kind) == kind \in ObserverKinds

\* the native client invokes the callbacks that set_callbacks registered
registered(kind) ==
    nativeClient.handle = "live" /\ kind \in nativeClient.callbacks

ConnStatuses == {"AUTHENTICATED", "UNAUTHENTICATED", "OTHER"}
ConnReasons == {"EXPIRED_SAS_TOKEN", "DEVICE_DISABLED", "BAD_CREDENTIAL",
                "RETRY_EXPIRED", "NO_NETWORK", "COMMUNICATION_ERROR", "OK"}

unauthenticated_reason(reason) ==
    CASE reason = "EXPIRED_SAS_TOKEN" -> "ExpiredSasToken"
      [] reason = "DEVICE_DISABLED" -> "DeviceDisabled"
      [] reason = "BAD_CREDENTIAL" -> "BadCredential"
      [] reason = "RETRY_EXPIRED" -> "RetryExpired"
      [] reason = "NO_NETWORK" -> "NoNetwork"
      [] reason = "COMMUNICATION_ERROR" -> "CommunicationError"
      [] OTHER -> "Unknown"

\* a native layer that delivers further events while a callback waits
NativeReadyWhileWaiting ==
    /\ client = "IotHubClient"
    /\ crashed = "none"
    /\ nativePc \in {"idle", "wait"}
    /\ nEvents < MaxEvents

NativeReady ==
    /\ client = "IotHubClient"
    /\ crashed = "none"
    /\ nativePc = "idle"
    /\ nEvents < MaxEvents

\* the callback reached its blocking_send with event val
BeginSend(kind, val) ==
    /\ nEvents' = nEvents + 1
    /\ nativePc' = "send"
    /\ nativeEv' = [kind |-> kind, id |-> nEvents + 1, val |-> val]
    /\ UNCHANGED << chan, rxOpen, rt, rtVal, lastRt, propsValid >>

\* the callback returned without sending anything
ReturnEarly(result) ==
    /\ nEvents' = nEvents + 1
    /\ lastRt' = result
    /\ UNCHANGED << nativePc, nativeEv, chan, rxOpen, rt, rtVal, propsValid >>

\* an outer match whose default arm forwards Authenticated
authentication_status_default_authenticated(connection_status, status_reason) ==
    IF connection_status = "UNAUTHENTICATED"
    THEN unauthenticated_reason(status_reason)
    ELSE "Authenticated"

\* the outer match: the status to forward, "none" when the callback returns
\* without forwarding
authentication_status(connection_status, status_reason) ==
    CASE connection_status = "AUTHENTICATED" -> "Authenticated"
      [] connection_status = "UNAUTHENTICATED" ->
            unauthenticated_reason(status_reason)
      [] OTHER -> "none"

\* one known and one unknown reason: the queues and the consumer treat the
\* forwarded status as opaque data
SampleReasons == {"NO_NETWORK", "OK"}

\* the callback invoked with a reason out of reasons
connection_status_callback(reasons) ==
    \E connection_status \in ConnStatuses, status_reason \in reasons :
        /\ NativeReady
        /\ registered("conn")
        /\ lastIn' = [kind |-> "conn", a |-> connection_status,
                      b |-> status_reason]
        /\ LET status == authentication_status(connection_status,
                                               status_reason)
           IN IF status # "none"
              THEN BeginSend("conn", status)
              ELSE ReturnEarly(lastRt)
        /\ UNCHANGED << client, observers, crashed, ehOut >>
        /\ UNCHANGED twinAsyncVars
        /\ UNCHANGED trackerVars
        /\ UNCHANGED messageVars
        /\ UNCHANGED lifeVars

c_connection_status_callback == connection_status_callback(ConnReasons)

TwinPayloads == {"json", "bad_utf8", "bad_json"}

twin_update_state(state) == IF state = 0 THEN "Complete" ELSE "Partial"

TwinStates == {0, 1}

\* values of the native state argument (a C unsigned int) that are no member
\* of DEVICE_TWIN_UPDATE_STATE
OtherTwinStates == {2, 256}

TwinStateName == [n \in TwinStates \cup OtherTwinStates |->
    CASE n = 0 -> "DEVICE_TWIN_UPDATE_COMPLETE"
      [] n = 1 -> "DEVICE_TWIN_UPDATE_PARTIAL"
      [] n = 2 -> "OTHER_2"
      [] OTHER -> "OTHER_256"]

\* `state as i8`: the low eight bits, read as a signed value
as_i8(n) == IF n % 256 < 128 THEN n % 256 ELSE (n % 256) - 256

\* mem::transmute::<i8, TwinUpdateState>: the variant with that discriminant.
\* A byte that is no discriminant makes an invalid enum value, which is
\* undefined behaviour: what the consumer then matches is either variant, or
\* neither
transmute(b) ==
    IF b \in TwinStates THEN {twin_update_state(b)}
    ELSE {"Complete", "Partial", "Invalid"}

\* a decoding that checks the text encoding only
twin_decode_utf8_only(payload) == payload # "bad_utf8"

\* String::from_utf8 and serde_json::from_str both succeed
twin_decode(payload) == payload = "json"

\* the callback is invoked for an update of the desired properties, or
\* (requested) with the full twin that answers a twin_async request
twin_callback(states) ==
    \E state \in states, payload \in TwinPayloads, requested \in BOOLEAN :
      \E desired_state \in transmute(as_i8(state)) :
        /\ NativeReady
        /\ registered("twin")
        /\ requested => twinRequests > 0 /\ state = 0 /\ payload = "json"
        /\ twinRequests' = IF requested THEN twinRequests - 1 ELSE twinRequests
        /\ lastIn' = [kind |-> "twin", a |-> TwinStateName[state],
                      b |-> payload]
        /\ IF twin_decode(payload)
           THEN BeginSend("twin", desired_state)
           ELSE ReturnEarly(lastRt)
        /\ UNCHANGED << client, observers, crashed, ehOut, twinAsyncResult,
                        nTwinAsync >>
        /\ UNCHANGED trackerVars
        /\ UNCHANGED messageVars
        /\ UNCHANGED lifeVars

\* the native layer passes one of the two states of DEVICE_TWIN_UPDATE_STATE
c_twin_callback == twin_callback(TwinStates)

\* the native layer passes any value of the C type
c_twin_callback_any_state == twin_callback(TwinStates \cup OtherTwinStates)

\* a twin_async that does not look for the observer
twin_async_result_unchecked(hasObserver, natOk) ==
    IF natOk THEN "Ok" ELSE "Err"

\* bail when tx_twin_desired is None, else the result of the native request
twin_async_result(hasObserver, natOk) ==
    IF hasObserver /\ natOk THEN "Ok" ELSE "Err"

\* the native request is made with c_twin_callback and the twin observer as
\* its context
twin_async == \E natOk \in BOOLEAN :
    /\ client = "IotHubClient"
    /\ crashed = "none"
    /\ FacadeIdle
    /\ nTwinAsync < MaxTwinAsync
    /\ nTwinAsync' = nTwinAsync + 1
    /\ twinAsyncResult' = twin_async_result("twin" \in observers, natOk)
    /\ twinRequests' = IF twin_async_result("twin" \in observers, natOk) = "Ok"
                       THEN twinRequests + 1 ELSE twinRequests
    /\ UNCHANGED << client, observers, crashed, ehOut, nativePc, nativeEv,
                    chan, rxOpen, rt, rtVal, lastRt, nEvents, propsValid,
                    lastIn >>
    /\ UNCHANGED trackerVars
    /\ UNCHANGED messageVars
    /\ UNCHANGED lifeVars

c2d_rejected(cause) ==
    [kind |-> "c2d", cause |-> cause, arg |-> "", disp |-> "REJECTED",
     status |-> 0, body |-> NoBody]

\* CString::new on every key of observer.properties, then
\* from_incoming_handle, whose only fallible steps are CString::new on
\* literals without a NUL byte
c2d_decode(keysValid) == keysValid

c_c2d_message_callback ==
    /\ NativeReady
    /\ registered("c2d")
    /\ lastIn' = [kind |-> "c2d", a |-> "handle",
                  b |-> IF propsValid THEN "keys_valid" ELSE "key_with_nul"]
    /\ IF c2d_decode(propsValid)
       THEN BeginSend("c2d", "message")
       ELSE ReturnEarly(c2d_rejected("DecodeError"))
    /\ UNCHANGED << client, observers, crashed, ehOut >>
    /\ UNCHANGED twinAsyncVars
    /\ UNCHANGED trackerVars
    /\ UNCHANGED messageVars
    /\ UNCHANGED lifeVars

DmInputs == {"ok", "bad_name", "bad_payload"}

dm_response(cause, status, body) ==
    [kind |-> "dm", cause |-> cause, arg |-> "", disp |-> "none",
     status |-> status, body |-> body]

\* a decoding that checks the name only
dm_decode_name_only(input) == input # "bad_name"

\* to_str on the name, then from_utf8 and serde_json::from_str on the payload
dm_decode(input) == input = "ok"

c_direct_method_callback == \E input \in DmInputs :
    /\ NativeReady
    /\ registered("dm")
    /\ lastIn' = [kind |-> "dm", a |-> input, b |-> "none"]
    /\ IF dm_decode(input)
       THEN BeginSend("dm", "method")
       ELSE ReturnEarly(dm_response("DecodeError", METHOD_RESPONSE_ERROR,
                                    EmptyObject))
    /\ UNCHANGED << client, observers, crashed, ehOut >>
    /\ UNCHANGED twinAsyncVars
    /\ UNCHANGED trackerVars
    /\ UNCHANGED messageVars
    /\ UNCHANGED lifeVars

\* a C2D message or a direct method arrives and no callback was registered
\* for it: the native layer has nothing of this client to call
no_callback(kind) ==
    /\ NativeReady
    /\ kind \in RoundTrip
    /\ ~registered(kind)
    /\ lastIn' = [kind |-> kind, a |-> "none", b |-> "none"]
    /\ ReturnEarly([NoRt EXCEPT !.kind = kind, !.cause = "NoCallback"])
    /\ UNCHANGED << client, observers, crashed, ehOut >>
    /\ UNCHANGED twinAsyncVars
    /\ UNCHANGED trackerVars
    /\ UNCHANGED messageVars
    /\ UNCHANGED lifeVars

\* a send that puts the event in front of the events already queued
blocking_send_front ==
    /\ crashed = "none"
    /\ nativePc = "send"
    /\ rxOpen[nativeEv.kind]
    /\ Len(chan[nativeEv.kind]) < ChanCap
    /\ chan' = [chan EXCEPT ![nativeEv.kind] =
                   << [id |-> nativeEv.id, val |-> nativeEv.val] >> \o @]
    /\ IF nativeEv.kind \in RoundTrip
       THEN /\ nativePc' = "wait"
            /\ rt' = "queued"
            /\ UNCHANGED nativeEv
       ELSE /\ nativePc' = "idle"
            /\ nativeEv' = NoEv
            /\ UNCHANGED rt
    /\ UNCHANGED << client, observers, crashed, rxOpen, rtVal, lastRt, nEvents,
                    propsValid, lastIn, ehOut >>
    /\ UNCHANGED twinAsyncVars
    /\ UNCHANGED trackerVars
    /\ UNCHANGED messageVars
    /\ UNCHANGED lifeVars

\* a send that does not wait: try_send, the event is dropped when the
\* channel is full
try_send_dropping ==
    /\ crashed = "none"
    /\ nativePc = "send"
    /\ rxOpen[nativeEv.kind]
    /\ chan' = IF Len(chan[nativeEv.kind]) < ChanCap
               THEN [chan EXCEPT ![nativeEv.kind] =
                       Append(@, [id |-> nativeEv.id, val |-> nativeEv.val])]
               ELSE chan
    /\ nativePc' = "idle"
    /\ nativeEv' = NoEv
    /\ UNCHANGED << client, observers, crashed, rxOpen, rt, rtVal, lastRt,
                    nEvents, propsValid,
                    lastIn, ehOut >>
    /\ UNCHANGED twinAsyncVars
    /\ UNCHANGED trackerVars
    /\ UNCHANGED messageVars
    /\ UNCHANGED lifeVars

\* blocking_send: waits while the channel is full
blocking_send ==
    /\ crashed = "none"
    /\ nativePc = "send"
    /\ rxOpen[nativeEv.kind]
    /\ Len(chan[nativeEv.kind]) < ChanCap
    /\ chan' = [chan EXCEPT ![nativeEv.kind] =
                   Append(@, [id |-> nativeEv.id, val |-> nativeEv.val])]
    /\ IF nativeEv.kind \in RoundTrip
       THEN /\ nativePc' = "wait"
            /\ rt' = "queued"
            /\ UNCHANGED nativeEv
       ELSE /\ nativePc' = "idle"
            /\ nativeEv' = NoEv
            /\ UNCHANGED rt
    /\ UNCHANGED << client, observers, crashed, rxOpen, rtVal, lastRt, nEvents,
                    propsValid,
                    lastIn, ehOut >>
    /\ UNCHANGED twinAsyncVars
    /\ UNCHANGED trackerVars
    /\ UNCHANGED messageVars
    /\ UNCHANGED lifeVars

\* blocking_send returned Err (the receiver is gone): .expect(..) panics
blocking_send_closed ==
    /\ crashed = "none"
    /\ nativePc = "send"
    /\ ~rxOpen[nativeEv.kind]
    /\ crashed' = "blocking_send_expect"
    /\ UNCHANGED << client, observers, ehOut >>
    /\ UNCHANGED trackerVars
    /\ UNCHANGED messageVars
    /\ UNCHANGED lifeVars
    /\ UNCHANGED dispatchVars

C2dReplies == {"Accepted", "Rejected", "Abandoned", "AsyncAck", "Err"}

DmReplies == {[tag |-> "OkNone", val |-> ""],
              [tag |-> "OkSome", val |-> "{\"a\":1}"],
              [tag |-> "OkSome", val |-> "null"],
              [tag |-> "Err", val |-> "boom"]}

NoReply == [tag |-> "none", val |-> ""]

\* a match whose Abandoned arm answers like the error arms
c2d_disposition_abandoned_rejected(reply) ==
    CASE reply = "Accepted" -> "ACCEPTED"
      [] reply = "AsyncAck" -> "ASYNC_ACK"
      [] OTHER -> "REJECTED"

\* the match on rx_result.blocking_recv() in c_c2d_message_callback;
\* reply is the consumer's answer, or "Closed"
c2d_disposition(reply) ==
    CASE reply = "Accepted" -> "ACCEPTED"
      [] reply = "Rejected" -> "REJECTED"
      [] reply = "Abandoned" -> "ABANDONED"
      [] reply = "AsyncAck" -> "ASYNC_ACK"
      [] reply = "Err" -> "REJECTED"
      [] OTHER -> "REJECTED"

\* a match that answers success unless the consumer replied with an error
dm_status_closed_is_success(tag) ==
    IF tag = "Err" THEN METHOD_RESPONSE_ERROR ELSE METHOD_RESPONSE_SUCCESS

\* the match on rx_result.blocking_recv() in c_direct_method_callback
dm_status(tag) ==
    IF tag \in {"OkNone", "OkSome"} THEN METHOD_RESPONSE_SUCCESS
    ELSE METHOD_RESPONSE_ERROR

\* serde_json's text never holds a NUL byte, so CString::new succeeds
dm_body(reply) ==
    CASE reply.tag = "OkSome" -> [form |-> "value", text |-> reply.val]
      [] reply.tag = "Err" -> [form |-> "json_string", text |-> reply.val]
      [] OTHER -> EmptyObject

\* rx_result.blocking_recv() returned
reply_recv ==
    /\ crashed = "none"
    /\ nativePc = "wait"
    /\ rt \in {"replied", "closed"}
    /\ LET r == IF rt = "closed" THEN [tag |-> "Closed", val |-> ""] ELSE rtVal
       IN lastRt' =
            IF nativeEv.kind = "c2d"
            THEN [kind |-> "c2d", cause |-> r.tag, arg |-> r.val,
                  disp |-> c2d_disposition(r.tag), status |-> 0, body |-> NoBody]
            ELSE [kind |-> "dm", cause |-> r.tag, arg |-> r.val, disp |-> "none",
                  status |-> dm_status(r.tag), body |-> dm_body(r)]
    /\ nativePc' = "idle"
    /\ nativeEv' = NoEv
    /\ rt' = "none"
    /\ rtVal' = NoReply
    /\ UNCHANGED << client, observers, crashed, chan, rxOpen, nEvents,
                    propsValid,
                    lastIn, ehOut >>
    /\ UNCHANGED twinAsyncVars
    /\ UNCHANGED trackerVars
    /\ UNCHANGED messageVars
    /\ UNCHANGED lifeVars

(* ------------------------------- the consumer ------------------------- *)

consumer_recv(k) ==
    /\ crashed = "none"
    /\ rxOpen[k]
    /\ chan[k] # << >>
    /\ chan' = [chan EXCEPT ![k] = Tail(@)]
    /\ rt' = IF k \in RoundTrip THEN "held" ELSE rt
    /\ UNCHANGED << client, observers, crashed, nativePc, nativeEv, rxOpen,
                    rtVal, lastRt, nEvents, propsValid,
                    lastIn, ehOut >>
    /\ UNCHANGED twinAsyncVars
    /\ UNCHANGED trackerVars
    /\ UNCHANGED messageVars
    /\ UNCHANGED lifeVars

consumer_reply ==
    /\ crashed = "none"
    /\ rt = "held"
    /\ \E v \in IF nativeEv.kind = "c2d"
                THEN { [tag |-> t, val |-> ""] : t \in C2dReplies }
                ELSE DmReplies :
          rtVal' = v
    /\ rt' = "replied"
    /\ UNCHANGED << client, observers, crashed, nativePc, nativeEv, chan,
                    rxOpen, lastRt, nEvents, propsValid,
                    lastIn, ehOut >>
    /\ UNCHANGED twinAsyncVars
    /\ UNCHANGED trackerVars
    /\ UNCHANGED messageVars
    /\ UNCHANGED lifeVars

\* the consumer drops the responder without replying
consumer_drop_responder ==
    /\ crashed = "none"
    /\ rt = "held"
    /\ rt' = "closed"
    /\ UNCHANGED << client, observers, crashed, nativePc, nativeEv, chan,
                    rxOpen, rtVal, lastRt, nEvents, propsValid,
                    lastIn, ehOut >>
    /\ UNCHANGED twinAsyncVars
    /\ UNCHANGED trackerVars
    /\ UNCHANGED messageVars
    /\ UNCHANGED lifeVars

\* the consumer drops the receiver: queued events, and a responder queued
\* with them, are dropped
consumer_drop_rx(k) ==
    /\ crashed = "none"
    /\ k \in observers
    /\ rxOpen[k]
    /\ rxOpen' = [rxOpen EXCEPT ![k] = FALSE]
    /\ chan' = [chan EXCEPT ![k] = << >>]
    /\ rt' = IF k \in RoundTrip /\ rt = "queued" /\ nativeEv.kind = k
             THEN "closed" ELSE rt
    /\ UNCHANGED << client, observers, crashed, nativePc, nativeEv, rtVal,
                    lastRt, nEvents, propsValid,
                    lastIn, ehOut >>
    /\ UNCHANGED twinAsyncVars
    /\ UNCHANGED trackerVars
    /\ UNCHANGED messageVars
    /\ UNCHANGED lifeVars

(* ------------- EventHandler-based IotHubModuleClient (client.rs) ------ *)

EhNone == [cause |-> "none", status |-> 0, body |-> NoBody, log |-> "none"]

\* handler: "NoMap" get_direct_methods() is None, "NoName" the map has no
\* such method, otherwise what the method returned
EhHandlers == {"NoMap", "NoName", "OkNone", "OkSome", "Err"}

\* a callback that answers success when no method of that name exists
eh_response_unknown_is_success(handler) ==
    [cause |-> handler,
     status |-> IF handler = "Err" THEN METHOD_RESPONSE_ERROR
                ELSE METHOD_RESPONSE_SUCCESS,
     body |-> EmptyObject, log |-> "none"]

eh_response(handler) ==
    CASE handler \in {"NoMap", "NoName"} ->
            [cause |-> handler, status |-> METHOD_RESPONSE_ERROR,
             body |-> EmptyObject, log |-> "method not implemented"]
      [] handler = "OkNone" ->
            [cause |-> handler, status |-> METHOD_RESPONSE_SUCCESS,
             body |-> EmptyObject, log |-> "Method has no result"]
      [] handler = "OkSome" ->
            [cause |-> handler, status |-> METHOD_RESPONSE_SUCCESS,
             body |-> [form |-> "value", text |-> "{\"a\":1}"], log |-> "Result"]
      [] OTHER ->
            [cause |-> handler, status |-> METHOD_RESPONSE_ERROR,
             body |-> EmptyObject, log |-> "error"]

\* to_str().unwrap() on the name; from_utf8(..).unwrap() and
\* from_str(..).unwrap() on the payload of a method that was found
eh_direct_method_callback ==
    \E nameOk \in BOOLEAN, payloadOk \in BOOLEAN, handler \in EhHandlers :
        /\ client = "EventHandler"
        /\ crashed = "none"
        /\ IF ~nameOk \/ (handler \notin {"NoMap", "NoName"} /\ ~payloadOk)
           THEN /\ crashed' = "eh_unwrap"
                /\ UNCHANGED ehOut
           ELSE /\ ehOut' = eh_response(handler)
                /\ UNCHANGED crashed
        /\ UNCHANGED << client, observers >>
        /\ UNCHANGED trackerVars
        /\ UNCHANGED messageVars
        /\ UNCHANGED lifeVars
        /\ UNCHANGED dispatchVars

\* client.rs: the nested match of c_connection_status_callback; the default
\* arm of the inner match and that of the outer match are panic!
eh_authentication_status(connection_status, status_reason) ==
    CASE connection_status = "AUTHENTICATED" -> "Authenticated"
      [] connection_status = "UNAUTHENTICATED" ->
            IF unauthenticated_reason(status_reason) = "Unknown"
            THEN "panic: unknown unauthenticated reason"
            ELSE unauthenticated_reason(status_reason)
      [] OTHER -> "panic: unknown authenticated state"

\* the status is handed to event_handler.handle_connection_status
eh_connection_status_callback ==
    \E connection_status \in ConnStatuses, status_reason \in ConnReasons :
        LET status == eh_authentication_status(connection_status,
                                               status_reason)
        IN  /\ client = "EventHandler"
            /\ crashed = "none"
            /\ nEvents < MaxEvents
            /\ nEvents' = nEvents + 1
            /\ lastIn' = [kind |-> "eh_conn", a |-> connection_status,
                          b |-> status_reason]
            /\ IF status \in {"panic: unknown unauthenticated reason",
                              "panic: unknown authenticated state"}
               THEN /\ crashed' = "eh_unknown_connection_status"
                    /\ UNCHANGED ehOut
               ELSE /\ ehOut' = [EhNone EXCEPT !.cause = "ConnectionStatus",
                                               !.log = status]
                    /\ UNCHANGED crashed
            /\ UNCHANGED << client, observers, nativePc, nativeEv, chan,
                            rxOpen, rt, rtVal, lastRt, propsValid >>
            /\ UNCHANGED twinAsyncVars
            /\ UNCHANGED trackerVars
            /\ UNCHANGED messageVars
            /\ UNCHANGED lifeVars

(* ------------------- IotMessage (client/message.rs) ------------------- *)

\* number of native handles created for one message
MaxHandles == 2

\* strings and bodies are sequences of bytes; 0 is the NUL byte
Strs == {<< 118 >>, << 119 >>, << 118, 0, 119 >>}
PropKeys == {<< 107 >>, << 107, 0, 108 >>}
PropVals == {<< 118 >>, << 118, 0, 119 >>}
Queues == {<< 111 >>, << 111, 0 >>}
Bodies == {<< >>, << 0, 7 >>}
SysKeys == {"$.mid", "$.cid", "$.ct", "$.ce"}

PartialFns(K, V) == UNION { [D -> V] : D \in SUBSET K }

\* CString::new(s) is Ok: s holds no NUL byte
cstring_ok(s) == \A i \in 1..Len(s) : s[i] # 0

\* CString::as_ptr: the bytes followed by the terminator
as_ptr(cs) == cs \o << 0 >>

\* reading a C string: the bytes before the first NUL
RECURSIVE c_str_read(_)
c_str_read(mem) ==
    IF mem = << >> \/ Head(mem) = 0 THEN << >>
    ELSE << Head(mem) >> \o c_str_read(Tail(mem))

\* the native layer keeps its own copy of a C string
native_copy(ptr) == c_str_read(ptr) \o << 0 >>

\* a null pointer (a stored C string holds at least its terminator)
Null == << >>

NoBuilder == [set |-> FALSE, message |-> << >>, output_queue |-> << 111 >>,
              properties |-> << >>, system_properties |-> << >>]

NoMsg == [direction |-> "none", handle |-> 0, body |-> << >>,
          output_queue |-> << >>, properties |-> << >>,
          system_properties |-> << >>]

\* every field of the builder passes CString::new
build_ok(b) ==
    /\ cstring_ok(b.output_queue)
    /\ \A k \in DOMAIN b.properties :
          cstring_ok(k) /\ cstring_ok(b.properties[k])
    /\ \A k \in DOMAIN b.system_properties :
          cstring_ok(b.system_properties[k])

\* IotMessageBuilder::build: the struct literal evaluates
\* self.message.unwrap() before any CString::new(..)?
build ==
    /\ crashed = "none"
    /\ buildResult = "none"
    /\ IF ~builder.set
       THEN /\ crashed' = "build_unwrap"
            /\ UNCHANGED << buildResult, msg >>
       ELSE IF ~build_ok(builder)
       THEN /\ buildResult' = "Err"
            /\ UNCHANGED << crashed, msg >>
       ELSE /\ buildResult' = "Ok"
            /\ msg' = [direction |-> "Outgoing", handle |-> 0,
                       body |-> builder.message,
                       output_queue |-> builder.output_queue,
                       properties |-> builder.properties,
                       system_properties |-> builder.system_properties]
            /\ UNCHANGED crashed
    /\ UNCHANGED << builder, heap, createResult, decoded, dropped,
                    decodedDropped >>
    /\ UNCHANGED << client, observers, ehOut >>
    /\ UNCHANGED trackerVars
    /\ UNCHANGED dispatchVars
    /\ UNCHANGED lifeVars

\* IoTHubMessage_Destroy on the handle the message holds
destroy_handle(h, handle) ==
    IF handle = 0 THEN h
    ELSE [h EXCEPT ![handle].live = FALSE, ![handle].destroys = @ + 1]

\* the native message after IoTHubMessage_CreateFromByteArray and the setters
native_message(m) ==
    [ live |-> TRUE, destroys |-> 0,
      body |-> m.body,
      messageId |-> IF "$.mid" \in DOMAIN m.system_properties
                    THEN native_copy(as_ptr(m.system_properties["$.mid"]))
                    ELSE Null,
      correlationId |-> IF "$.cid" \in DOMAIN m.system_properties
                        THEN native_copy(as_ptr(m.system_properties["$.cid"]))
                        ELSE Null,
      contentType |-> IF "$.ct" \in DOMAIN m.system_properties
                      THEN native_copy(as_ptr(m.system_properties["$.ct"]))
                      ELSE Null,
      contentEncoding |-> IF "$.ce" \in DOMAIN m.system_properties
                          THEN native_copy(as_ptr(m.system_properties["$.ce"]))
                          ELSE Null,
      properties |-> [k \in { c_str_read(as_ptr(key)) :
                                key \in DOMAIN m.properties } |->
                        native_copy(as_ptr(m.properties[
                            CHOOSE key \in DOMAIN m.properties :
                                c_str_read(as_ptr(key)) = k]))] ]

\* create_outgoing_handle: destroy_handle, then the native allocation and the
\* setters; outcome is what the native layer answered: "ok", "alloc_null"
\* (a null handle) or "set_failed" (a setter returned non-OK).  self.handle
\* is assigned after the last setter only.
create_outgoing_handle == \E outcome \in {"ok", "alloc_null", "set_failed"} :
    /\ crashed = "none"
    /\ msg.direction = "Outgoing"
    /\ ~dropped
    /\ Len(heap) < MaxHandles
    /\ outcome = "set_failed" =>
          DOMAIN msg.system_properties \cup DOMAIN msg.properties # {}
    /\ LET h == destroy_handle(heap, msg.handle)
       IN  /\ heap' = IF outcome = "alloc_null" THEN h
                      ELSE Append(h, native_message(msg))
           /\ msg' = [msg EXCEPT !.handle = IF outcome = "ok"
                                            THEN Len(heap) + 1 ELSE 0]
    /\ createResult' = IF outcome = "ok" THEN "Ok" ELSE "Err"
    /\ UNCHANGED << builder, buildResult, decoded, dropped, decodedDropped >>
    /\ UNCHANGED << client, observers, crashed, ehOut >>
    /\ UNCHANGED trackerVars
    /\ UNCHANGED dispatchVars
    /\ UNCHANGED lifeVars

\* getters that pair $.ct with the content encoding and $.ce with the type
system_property_getter_ct_ce_swapped(h, key) ==
    CASE key = "$.mid" -> h.messageId
      [] key = "$.cid" -> h.correlationId
      [] key = "$.ct" -> h.contentEncoding
      [] key = "$.ce" -> h.contentType

\* the getter that from_incoming_handle pairs with each key
system_property_getter(h, key) ==
    CASE key = "$.mid" -> h.messageId
      [] key = "$.cid" -> h.correlationId
      [] key = "$.ct" -> h.contentType
      [] key = "$.ce" -> h.contentEncoding

\* from_incoming_handle: body, the four system properties that are not null,
\* and the requested properties the native message holds
from_incoming_handle(h, handle, property_keys) ==
    [ direction |-> "Incoming",
      handle |-> handle,
      body |-> h.body,
      output_queue |-> << 111 >>,
      system_properties |->
          [k \in { key \in SysKeys : system_property_getter(h, key) # Null } |->
              c_str_read(system_property_getter(h, k))],
      properties |->
          [k \in { key \in property_keys :
                     c_str_read(as_ptr(key)) \in DOMAIN h.properties } |->
              c_str_read(h.properties[c_str_read(as_ptr(k))])] ]

\* the native layer hands the encoded message back: it is decoded with the
\* keys of the outgoing message's properties
incoming ==
    /\ crashed = "none"
    /\ msg.handle # 0
    /\ decoded = NoMsg
    /\ decoded' = from_incoming_handle(heap[msg.handle], msg.handle,
                                       DOMAIN msg.properties)
    /\ UNCHANGED << builder, buildResult, msg, heap, createResult, dropped,
                    decodedDropped >>
    /\ UNCHANGED << client, observers, crashed, ehOut >>
    /\ UNCHANGED trackerVars
    /\ UNCHANGED dispatchVars
    /\ UNCHANGED lifeVars

\* a Drop that releases the handle whatever the direction
drop_any_direction(h, m) == destroy_handle(h, m.handle)

\* Drop for IotMessage: destroy_handle if the direction is Outgoing
drop(h, m) ==
    IF m.direction = "Outgoing" THEN destroy_handle(h, m.handle) ELSE h

\* the outgoing message goes out of scope
drop_message ==
    /\ crashed = "none"
    /\ msg.direction = "Outgoing"
    /\ ~dropped
    /\ dropped' = TRUE
    /\ heap' = drop(heap, msg)
    /\ msg' = [msg EXCEPT !.handle = 0]
    /\ UNCHANGED << builder, buildResult, createResult, decoded,
                    decodedDropped >>
    /\ UNCHANGED << client, observers, crashed, ehOut >>
    /\ UNCHANGED trackerVars
    /\ UNCHANGED dispatchVars
    /\ UNCHANGED lifeVars

\* the message made by from_incoming_handle goes out of scope
drop_incoming ==
    /\ crashed = "none"
    /\ decoded # NoMsg
    /\ ~decodedDropped
    /\ decodedDropped' = TRUE
    /\ heap' = drop(heap, decoded)
    /\ UNCHANGED << builder, buildResult, msg, createResult, decoded, dropped >>
    /\ UNCHANGED << client, observers, crashed, ehOut >>
    /\ UNCHANGED trackerVars
    /\ UNCHANGED dispatchVars
    /\ UNCHANGED lifeVars

\* create_outgoing_handle on the message made by from_incoming_handle (it is
\* passed to send_d2c_message): assert_eq!(self.direction, Outgoing) panics
\* before destroy_handle
create_outgoing_handle_incoming ==
    /\ crashed = "none"
    /\ decoded # NoMsg
    /\ ~decodedDropped
    /\ crashed' = IF decoded.direction = "Outgoing" THEN crashed
                  ELSE "assert_direction"
    /\ heap' = IF decoded.direction = "Outgoing"
               THEN destroy_handle(heap, decoded.handle) ELSE heap
    /\ UNCHANGED << builder, buildResult, msg, createResult, decoded, dropped,
                    decodedDropped >>
    /\ UNCHANGED << client, observers, ehOut >>
    /\ UNCHANGED trackerVars
    /\ UNCHANGED dispatchVars
    /\ UNCHANGED lifeVars


(* ------------------------------ client life --------------------------- *)

\* IoTHub_Init returns 0, or an error code
InitReturns == {0, 1}

\* the order in which set_callbacks registers the callbacks
CallbackOrder == << "conn", "c2d", "twin", "dm" >>

\* no observer box: a context address of 0 stands for "none"
NoContexts == [k \in ObserverKinds |-> 0]

\* the process before any client is constructed
NoProcess == [once |-> FALSE, IOTHUB_INIT_RESULT |-> -1, IOTHUB |-> FALSE,
              init_runs |-> 0]

NoNativeClient == [handle |-> "none", created |-> 0, destroyed |-> 0,
                   callbacks |-> {}, ctx |-> NoContexts]

NoLife == [pc |-> "new", n |-> 0, contexts |-> NoContexts, init |-> "none",
           result |-> "none", seen |-> {}, dangling |-> FALSE]

\* an initialisation that calls IoTHub_Init on every call
iothub_init_every_time(p, ret) ==
    [p EXCEPT !.once = TRUE, !.IOTHUB_INIT_RESULT = ret,
              !.init_runs = @ + 1]

\* IOTHUB_INIT_ONCE.call_once(|| IOTHUB_INIT_RESULT = IoTHub_Init()): the
\* closure runs on the first call only; ret is what IoTHub_Init returns
iothub_init(p, ret) ==
    IF p.once THEN p
    ELSE [p EXCEPT !.once = TRUE, !.IOTHUB_INIT_RESULT = ret,
                   !.init_runs = @ + 1]

\* match IOTHUB_INIT_RESULT { 0 => Ok(()), _ => bail!(..) }
iothub_init_result(p) == IF p.IOTHUB_INIT_RESULT = 0 THEN "Ok" ELSE "Err"

\* lib.rs: result is a local that starts as 1 and is assigned only inside the
\* call_once closure
iot_hub_init(p, ret) ==
    [process |-> IF p.IOTHUB THEN p
                 ELSE [p EXCEPT !.IOTHUB = TRUE, !.init_runs = @ + 1],
     result |-> IF p.IOTHUB THEN 1 ELSE ret]

\* the boxes the client value holds: a clone of each observer of the builder,
\* allocated when the struct is built (addr names the allocation)
observer_boxes(obs, addr) ==
    [k \in ObserverKinds |-> IF k \in obs THEN addr ELSE 0]

\* a set_callbacks that registers every callback, observer or not
set_callbacks_registered_all(obs, failAt) ==
    {CallbackOrder[i] : i \in
        {j \in 1..Len(CallbackOrder) :
            \A f \in 1..Len(CallbackOrder) :
                CallbackOrder[f] = failAt => j < f}}

\* set_callbacks: each `if let Some(tx)` registers in turn and returns at the
\* first native failure (failAt), leaving the earlier ones registered
set_callbacks_registered(obs, failAt) ==
    {CallbackOrder[i] : i \in
        {j \in 1..Len(CallbackOrder) :
            /\ CallbackOrder[j] \in obs
            /\ \A f \in 1..Len(CallbackOrder) :
                   CallbackOrder[f] = failAt => j < f}}

\* a Drop that lets the observer boxes go before the native destroy
contexts_released_first(contexts) == NoContexts

\* Drop::drop is twin.destroy() and nothing else: the fields of the client,
\* the observer boxes among them, are dropped after it has returned
contexts_at_destroy(contexts) == contexts

\* a constructor whose error return leaves the client undropped
constructed_forgetting(failAt) ==
    IF failAt = "none" THEN "ready" ELSE "failed"

\* once the struct is built, `?` on set_callbacks() or set_options() returns
\* the error and the local client goes out of scope
constructed(failAt) ==
    IF failAt = "none" THEN "ready" ELSE "unwinding"

\* a client that can be constructed: none exists, and the bound allows one
CanConstruct ==
    /\ crashed = "none"
    /\ life.pc \in {"new", "failed", "gone"}
    /\ life.n < MaxClients

\* from_connection_string / from_edge_environment: iothub_init()?, twin
\* create ?, the struct with the cloned observers, set_callbacks()?,
\* set_options()?.  An error after the struct was built drops the client.
from_connection_string ==
    \E ret \in InitReturns, createOk \in BOOLEAN,
       failAt \in observers \cup {"none", "options"} :
        LET p == iothub_init(process, ret)
            boxes == observer_boxes(observers, life.n + 1)
            regs == set_callbacks_registered(observers, failAt)
        IN  /\ client = "IotHubClient"
            /\ CanConstruct
            /\ process' = p
            /\ IF iothub_init_result(p) = "Err" \/ ~createOk
               THEN /\ life' = [life EXCEPT !.pc = "failed", !.n = @ + 1,
                                            !.init = iothub_init_result(p),
                                            !.result = "Err",
                                            !.contexts = NoContexts]
                    /\ nativeClient' = [nativeClient EXCEPT
                                            !.handle = "none",
                                            !.callbacks = {},
                                            !.ctx = NoContexts]
               ELSE /\ life' = [life EXCEPT
                                  !.pc = constructed(failAt),
                                  !.n = @ + 1,
                                  !.init = iothub_init_result(p),
                                  !.result = IF failAt = "none" THEN "Ok"
                                             ELSE "Err",
                                  !.contexts = boxes]
                    /\ nativeClient' = [nativeClient EXCEPT
                                  !.handle = "live",
                                  !.created = @ + 1,
                                  !.callbacks = regs,
                                  !.ctx = [k \in ObserverKinds |->
                                      IF k \in regs THEN boxes[k] ELSE 0]]
            /\ UNCHANGED << client, observers, crashed, ehOut >>
            /\ UNCHANGED trackerVars
            /\ UNCHANGED dispatchVars
            /\ UNCHANGED messageVars

\* the client value goes out of scope: Drop::drop calls twin.destroy()
drop_begin ==
    /\ client = "IotHubClient"
    /\ crashed = "none"
    /\ life.pc \in {"ready", "unwinding"}
    /\ life' = [life EXCEPT !.pc = "destroying",
                            !.contexts = contexts_at_destroy(@)]
    /\ UNCHANGED << client, observers, crashed, ehOut, process, nativeClient >>
    /\ UNCHANGED trackerVars
    /\ UNCHANGED dispatchVars
    /\ UNCHANGED messageVars

\* twin.destroy(): IoTHub*Client_LL_Destroy(self.handle.unwrap()) returns;
\* the native client and its registrations are gone
destroy ==
    /\ crashed = "none"
    /\ life.pc = "destroying"
    /\ nativeClient' = [nativeClient EXCEPT !.handle = "destroyed",
                                            !.destroyed = @ + 1,
                                            !.callbacks = {},
                                            !.ctx = NoContexts]
    /\ life' = [life EXCEPT !.pc = "destroyed"]
    /\ UNCHANGED << client, observers, crashed, ehOut, process >>
    /\ UNCHANGED trackerVars
    /\ UNCHANGED dispatchVars
    /\ UNCHANGED messageVars

\* after Drop::drop the fields are dropped in declaration order: twin, then
\* the observer boxes
drop_fields ==
    /\ crashed = "none"
    /\ life.pc = "destroyed"
    /\ life' = [life EXCEPT !.pc = "gone", !.contexts = NoContexts]
    /\ UNCHANGED << client, observers, crashed, ehOut, process, nativeClient >>
    /\ UNCHANGED trackerVars
    /\ UNCHANGED dispatchVars
    /\ UNCHANGED messageVars

\* a native callback starts: it casts its context back to the observer
\* (`&mut *(ctx as *mut ..Observer)`); the box behind it is alive or not
callback_context(kind) ==
    /\ crashed = "none"
    /\ nativeClient.handle = "live"
    /\ kind \in nativeClient.callbacks
    /\ kind \notin life.seen
    /\ life' = IF /\ nativeClient.ctx[kind] # 0
                  /\ life.contexts[kind] = nativeClient.ctx[kind]
               THEN [life EXCEPT !.seen = @ \cup {kind}]
               ELSE [life EXCEPT !.seen = @ \cup {kind}, !.dangling = TRUE]
    /\ UNCHANGED << client, observers, crashed, ehOut, process, nativeClient >>
    /\ UNCHANGED trackerVars
    /\ UNCHANGED dispatchVars
    /\ UNCHANGED messageVars

\* lib.rs new: iot_hub_init()?, create_from_connection_string ?, the boxed
\* client
lib_new ==
    \E ret \in InitReturns, createOk \in BOOLEAN :
        LET r == iot_hub_init(process, ret)
        IN  /\ client = "Callback"
            /\ CanConstruct
            /\ process' = r.process
            /\ IF r.result # 0 \/ ~createOk
               THEN /\ life' = [life EXCEPT
                                  !.pc = "failed", !.n = @ + 1,
                                  !.init = IF r.result = 0 THEN "Ok" ELSE "Err",
                                  !.result = "Err"]
                    /\ nativeClient' = [nativeClient EXCEPT !.handle = "none"]
               ELSE /\ life' = [life EXCEPT !.pc = "ready", !.n = @ + 1,
                                            !.init = "Ok",
                                            !.result = "Ok"]
                    /\ nativeClient' = [nativeClient EXCEPT
                                            !.handle = "live",
                                            !.created = @ + 1]
            /\ UNCHANGED << client, observers, crashed, ehOut >>
            /\ UNCHANGED trackerVars
            /\ UNCHANGED dispatchVars
            /\ UNCHANGED messageVars

\* lib.rs Drop: IoTHubModuleClient_LL_Destroy(self.handle)
lib_drop ==
    /\ client = "Callback"
    /\ crashed = "none"
    /\ life.pc = "ready"
    /\ nativeClient' = [nativeClient EXCEPT !.handle = "destroyed",
                                            !.destroyed = @ + 1]
    /\ life' = [life EXCEPT !.pc = "gone"]
    /\ UNCHANGED << client, observers, crashed, ehOut, process >>
    /\ UNCHANGED trackerVars
    /\ UNCHANGED dispatchVars
    /\ UNCHANGED messageVars

(* ---------------------------- specification --------------------------- *)

\* a client that was constructed without error: IoTHub_Init ran once and
\* returned 0, the handle is live and set_callbacks registered the observers
InitReady ==
    /\ process = [once |-> TRUE, IOTHUB_INIT_RESULT |-> 0, IOTHUB |-> FALSE,
                  init_runs |-> 1]
    /\ nativeClient = [handle |-> "live", created |-> 1, destroyed |-> 0,
                       callbacks |-> observers,
                       ctx |-> observer_boxes(observers, 1)]
    /\ life = [pc |-> "ready", n |-> 1,
               contexts |-> observer_boxes(observers, 1), init |-> "Ok",
               result |-> "Ok", seen |-> {}, dangling |-> FALSE]

\* the facade and its channels before anything was sent or delivered
InitFacade ==
    /\ observers \in SUBSET ObserverKinds
    /\ client = "EventHandler" => observers = {}
    /\ propsValid \in BOOLEAN
    /\ "c2d" \notin observers => propsValid
    /\ sends = << >>
    /\ confirmation_set = {}
    /\ shutPc = "idle"
    /\ sleft = 0
    /\ shutElapsed = 0
    /\ crashed = "none"
    /\ nativePc = "idle"
    /\ nativeEv = NoEv
    /\ chan = [k \in ObserverKinds |-> << >>]
    /\ rxOpen = [k \in ObserverKinds |-> TRUE]
    /\ rt = "none"
    /\ rtVal = NoReply
    /\ lastRt = NoRt
    /\ lastIn = NoIn
    /\ twinRequests = 0
    /\ twinAsyncResult = "none"
    /\ nTwinAsync = 0
    /\ nEvents = 0
    /\ ehOut = EhNone

InitClient ==
    /\ client \in {"IotHubClient", "EventHandler"}
    /\ InitFacade
    /\ InitReady

\* no message is being built
InitNoMessage ==
    /\ builder = NoBuilder
    /\ buildResult = "none"
    /\ msg = NoMsg
    /\ heap = << >>
    /\ createResult = "none"
    /\ decoded = NoMsg
    /\ dropped = FALSE
    /\ decodedDropped = FALSE

Init == InitClient /\ InitNoMessage

\* one message: the application has filled a builder in some way
InitMessage ==
    /\ InitClient
    /\ client = "IotHubClient"
    /\ observers = {}
    /\ builder \in [set : BOOLEAN, message : Bodies, output_queue : Queues,
                     properties : PartialFns(PropKeys, PropVals),
                     system_properties : PartialFns(SysKeys, Strs)]
    /\ ~builder.set => builder.message = << >>
    /\ buildResult = "none"
    /\ msg = NoMsg
    /\ heap = << >>
    /\ createResult = "none"
    /\ decoded = NoMsg
    /\ dropped = FALSE
    /\ decodedDropped = FALSE

NextMessage ==
    \/ build
    \/ create_outgoing_handle
    \/ incoming
    \/ drop_message
    \/ drop_incoming
    \/ create_outgoing_handle_incoming

SpecMessage == InitMessage /\ [][NextMessage]_vars

\* the confirmation tracker of one IotHubClient: sends, waiters, confirmation
\* callbacks, shutdown and time
InitTracker ==
    /\ Init
    /\ client = "IotHubClient"
    /\ observers = ObserverKinds
    /\ propsValid

NextTracker ==
    \/ send_d2c_message
    \/ twin_report
    \/ \E i \in DOMAIN sends : waiter_start(i)
    \/ \E i \in DOMAIN sends : waiter_recv(i)
    \/ \E i \in DOMAIN sends : waiter_timeout(i)
    \/ \E i \in DOMAIN sends : c_d2c_confirmation_callback(i)
    \/ \E i \in DOMAIN sends : c_reported_twin_callback(i)
    \/ shutdown_begin
    \/ \E i \in DOMAIN sends : shutdown_join_next(i)
    \/ shutdown_drained
    \/ shutdown_timeout
    \/ shutdown_return
    \/ Tick

SpecTracker == InitTracker /\ [][NextTracker]_vars

\* the tracker with a native layer that may repeat a confirmation callback
NextDuplicate ==
    \/ NextTracker
    \/ \E i \in DOMAIN sends : duplicate_confirmation_callback(i)

SpecDuplicate == InitTracker /\ [][NextDuplicate]_vars

\* the tracker with façade calls made while shutdown is suspended
NextInterleaved ==
    \/ NextTracker
    \/ send_d2c_message_while_suspended
    \/ twin_report_while_suspended

SpecInterleaved == InitTracker /\ [][NextInterleaved]_vars

\* the waiter task against everything its receiver can yield: a value, the
\* loss of the sender, or nothing before the timeout
NextWaiter ==
    \/ send_d2c_message
    \/ twin_report
    \/ \E i \in DOMAIN sends : waiter_start(i)
    \/ \E i \in DOMAIN sends : waiter_recv(i)
    \/ \E i \in DOMAIN sends : waiter_timeout(i)
    \/ \E i \in DOMAIN sends : c_d2c_confirmation_callback(i)
    \/ \E i \in DOMAIN sends : c_reported_twin_callback(i)
    \/ \E i \in DOMAIN sends : sender_dropped(i)
    \/ Tick

SpecWaiter == InitTracker /\ [][NextWaiter]_vars

\* the confirmation set under a longer run of D2C sends, without shutdown
NextSpawns ==
    \/ send_d2c_message_spawns
    \/ \E i \in DOMAIN sends : waiter_start(i)
    \/ \E i \in DOMAIN sends : waiter_recv(i)
    \/ \E i \in DOMAIN sends : waiter_timeout(i)
    \/ \E i \in DOMAIN sends : c_d2c_confirmation_callback(i)
    \/ Tick

SpecSpawns == InitTracker /\ [][NextSpawns]_vars

\* sends, their waiters and the two confirmation callbacks, with the
\* arguments of each callback invocation kept
NextConfirmation ==
    \/ send_d2c_message
    \/ twin_report
    \/ \E i \in DOMAIN sends : waiter_start(i)
    \/ \E i \in DOMAIN sends : waiter_recv(i)
    \/ \E i \in DOMAIN sends : waiter_timeout(i)
    \/ \E i \in DOMAIN sends : c_d2c_confirmation_callback_args(i)
    \/ \E i \in DOMAIN sends : c_reported_twin_callback_args(i)
    \/ Tick

SpecConfirmation == InitTracker /\ [][NextConfirmation]_vars

\* the native callback thread, the observer channels and the consumer, for
\* every set of observers a client can be built with; and the direct-method
\* callback of the EventHandler-based client
NextDispatch ==
    \/ connection_status_callback(SampleReasons)
    \/ c_twin_callback
    \/ c_c2d_message_callback
    \/ c_direct_method_callback
    \/ \E k \in RoundTrip : no_callback(k)
    \/ blocking_send
    \/ blocking_send_closed
    \/ reply_recv
    \/ \E k \in ObserverKinds : consumer_recv(k)
    \/ consumer_reply
    \/ consumer_drop_responder
    \/ \E k \in ObserverKinds : consumer_drop_rx(k)
    \/ eh_direct_method_callback

SpecDispatch == Init /\ [][NextDispatch]_vars

\* a client built with the connection-status observer alone, the native
\* layer reporting every status and reason
InitConnection ==
    /\ Init
    /\ client = "IotHubClient"
    /\ observers = {"conn"}

NextConnection ==
    \/ c_connection_status_callback
    \/ blocking_send
    \/ blocking_send_closed
    \/ consumer_recv("conn")
    \/ consumer_drop_rx("conn")

SpecConnection == InitConnection /\ [][NextConnection]_vars

\* twin_async on a client built with or without the twin-desired observer
InitTwin ==
    /\ Init
    /\ client = "IotHubClient"
    /\ observers \in {{}, {"twin"}}

NextTwin ==
    \/ twin_async
    \/ c_twin_callback
    \/ blocking_send
    \/ blocking_send_closed
    \/ consumer_recv("twin")
    \/ consumer_drop_rx("twin")

SpecTwin == InitTwin /\ [][NextTwin]_vars

\* the twin-desired callback with every value of its state argument
InitTwinState ==
    /\ Init
    /\ client = "IotHubClient"
    /\ observers = {"twin"}

NextTwinState ==
    \/ c_twin_callback_any_state
    \/ blocking_send
    \/ blocking_send_closed
    \/ consumer_recv("twin")
    \/ consumer_drop_rx("twin")

SpecTwinState == InitTwinState /\ [][NextTwinState]_vars

\* the runtime polls tasks that are ready and serves timers that ran out, and
\* time passes; nothing obliges the application to send or to shut down, or
\* the native layer to call back
RuntimeStep ==
    \/ Tick
    \/ \E i \in DOMAIN sends : waiter_start(i)
    \/ \E i \in DOMAIN sends : waiter_recv(i)
    \/ \E i \in DOMAIN sends : waiter_timeout(i)
    \/ \E i \in DOMAIN sends : shutdown_join_next(i)
    \/ shutdown_drained
    \/ shutdown_timeout
    \/ shutdown_return

FairTracker == WF_vars(RuntimeStep)

SpecTrackerFair == SpecTracker /\ FairTracker

\* the two native callbacks of the EventHandler-based client
InitEventHandler ==
    /\ Init
    /\ client = "EventHandler"

NextEventHandler ==
    \/ eh_connection_status_callback
    \/ eh_direct_method_callback

SpecEventHandler == InitEventHandler /\ [][NextEventHandler]_vars

\* the life of the clients of one process: construction (which may fail at
\* any step), the operations of a constructed client, native callbacks, drop
InitLifecycle ==
    /\ client \in {"IotHubClient", "Callback"}
    /\ InitFacade
    /\ client = "Callback" => observers = {}
    /\ propsValid
    /\ InitNoMessage
    /\ process = NoProcess
    /\ nativeClient = NoNativeClient
    /\ life = NoLife

NextLifecycle ==
    \/ from_connection_string
    \/ drop_begin
    \/ destroy
    \/ drop_fields
    \/ \E kind \in ObserverKinds : callback_context(kind)
    \/ life.pc = "ready" /\ twin_async
    \/ life.pc = "ready" /\ send_d2c_message
    \/ lib_new
    \/ lib_drop

SpecLifecycle == InitLifecycle /\ [][NextLifecycle]_vars

(* ================================ claims ============================== *)

\* C1: every send that returned Ok has a waiter that ends with one of the
\* three outcomes success, failure, timed out: a waiter is never found ended
\* in any other way.
C1_WaiterEndsWithOutcome ==
    \A i \in DOMAIN sends :
        sends[i].res = "Ok" => sends[i].w \in Pending \cup Completed

\* C2: the result of a send is Ok exactly when the encoding and the native
\* send call succeeded; when the call returns Ok its waiter has only been
\* spawned and nothing was confirmed; and no later step (a confirmation that
\* fails or times out included) changes the result of a call that returned.
C2_ResultIsSubmissionOnly ==
    [][ /\ \A i \in DOMAIN sends' :
              sends'[i].res = "Ok" <=> sends'[i].ctx \in {"boxed", "reclaimed"}
        /\ \A i \in DOMAIN sends : sends'[i].res = sends[i].res
        /\ Len(sends') > Len(sends) /\ sends'[Len(sends')].res = "Ok"
              => /\ sends'[Len(sends')].w = "spawned"
                 /\ sends'[Len(sends')].sig = "none"
                 /\ sends'[Len(sends')].ctx = "boxed" ]_vars

\* a send returned Ok and its confirmation later failed, or timed out
C2_Witness ==
    \E i \in DOMAIN sends, j \in DOMAIN sends :
        /\ sends[i].res = "Ok" /\ sends[i].w = "failed"
        /\ sends[j].res = "Ok" /\ sends[j].w = "timedout"

\* C3: a confirmation callback that fires after its waiter gave up (its
\* context is reclaimed and its value could not be delivered) leaves the
\* process running.
C3_LateCallbackIsNoOp ==
    \A i \in DOMAIN sends :
        sends[i].ctx = "reclaimed" /\ sends[i].sig = "none" => crashed = "none"

\* C4: a running shutdown never lasts longer than the drain bound; when it
\* returns the confirmation set is empty and no waiter is pending; and a
\* shutdown that was called returns (unless a panic ends the process first).
C4_ShutdownTerminates ==
    /\ [](shutPc \in {"draining", "joining"}
            => shutElapsed <= get_confirmation_timeout)
    /\ [][ shutPc # "returned" /\ shutPc' = "returned"
            => /\ confirmation_set' = {}
               /\ \A i \in DOMAIN sends' : sends'[i].w \notin Pending ]_vars
    /\ (shutPc = "draining" ~> (shutPc = "returned" \/ crashed # "none"))

\* shutdown returned at the drain bound having aborted two waiters whose
\* callbacks never fired
C4_Witness ==
    /\ shutPc = "returned"
    /\ shutElapsed = get_confirmation_timeout
    /\ confirmation_set = {}
    /\ Len(sends) = 2
    /\ \A i \in DOMAIN sends : sends[i].w = "aborted" /\ sends[i].ctx = "boxed"

\* C5: when shutdown has returned, no waiter was cut short: none is aborted.
C5_ShutdownCompletesAll ==
    shutPc = "returned" => \A i \in DOMAIN sends : sends[i].w # "aborted"

\* C6: while the native callback is in blocking_send on a full channel it
\* stays there with its event; it leaves the send (other than by a panic)
\* only by appending exactly that event to the channel; and as soon as the
\* channel has room and the receiver is alive the delivery can take place.
C6_FullChannelBlocks ==
    /\ [](nativePc = "send" /\ rxOpen[nativeEv.kind]
             /\ Len(chan[nativeEv.kind]) < ChanCap => ENABLED blocking_send)
    /\ [][ nativePc = "send" =>
            /\ Len(chan[nativeEv.kind]) = ChanCap
                  => nativePc' = "send" /\ nativeEv' = nativeEv
            /\ nativePc' # "send" /\ crashed' = "none"
                  => chan'[nativeEv.kind] =
                        Append(chan[nativeEv.kind],
                               [id |-> nativeEv.id, val |-> nativeEv.val]) ]_vars

\* the native callback is blocked with the next event on a full channel
C6_Witness ==
    /\ nativePc = "send"
    /\ nativeEv.kind \in {"conn", "twin"}
    /\ rxOpen[nativeEv.kind]
    /\ Len(chan[nativeEv.kind]) = ChanCap
    /\ nativeEv.id = ChanCap + 1

C9_DispositionIsReply ==
    lastRt.kind = "c2d" /\ lastRt.cause \notin {"DecodeError", "NoCallback"} =>
        /\ lastRt.cause = "Accepted" => lastRt.disp = "ACCEPTED"
        /\ lastRt.cause = "Rejected" => lastRt.disp = "REJECTED"
        /\ lastRt.cause = "Abandoned" => lastRt.disp = "ABANDONED"
        /\ lastRt.cause = "AsyncAck" => lastRt.disp = "ASYNC_ACK"
        /\ lastRt.cause \in {"Err", "Closed"} => lastRt.disp = "REJECTED"
        /\ lastRt.cause \in C2dReplies \cup {"Closed"}

\* the consumer replied Abandoned and the callback returned ABANDONED
C9_Witness ==
    lastRt.kind = "c2d" /\ lastRt.cause = "Abandoned" /\ lastRt.disp = "ABANDONED"

\* C10: the response to a decoded direct method follows the consumer's reply:
\* Ok(None) 200 with "{ }", Ok(Some(json)) 200 with json, Err(e) 401 with a
\* body carrying e's message, a closed reply channel 401; and the response
\* buffer is set whenever the callback returns.
C10_ResponseIsReply ==
    lastRt.kind = "dm" /\ lastRt.cause # "NoCallback" =>
        /\ lastRt.body.form # "none"
        /\ lastRt.cause = "OkNone" =>
              lastRt.status = 200 /\ lastRt.body = EmptyObject
        /\ lastRt.cause = "OkSome" =>
              /\ lastRt.status = 200
              /\ lastRt.body = [form |-> "value", text |-> lastRt.arg]
        /\ lastRt.cause = "Err" =>
              /\ lastRt.status = 401
              /\ lastRt.body = [form |-> "json_string", text |-> lastRt.arg]
        /\ lastRt.cause = "Closed" => lastRt.status = 401
        /\ lastRt.cause \in {"OkNone", "OkSome", "Err", "Closed", "DecodeError"}

\* the consumer dropped the responder and the callback returned 401
C10_Witness ==
    lastRt.kind = "dm" /\ lastRt.cause = "Closed" /\ lastRt.status = 401

\* C11: a round-trip callback whose input does not decode (a requested
\* property key with a NUL byte; a direct-method name that is not valid text
\* or a payload that is not UTF-8 JSON) returns within the call, with
\* REJECTED respectively the error status, and puts nothing on any observer
\* channel and opens no reply channel.
C11_DecodeFailureAnsweredAtOnce ==
    [][(/\ nEvents' = nEvents + 1
        /\ \/ lastIn'.kind = "c2d" /\ lastIn'.b = "key_with_nul"
           \/ lastIn'.kind = "dm" /\ lastIn'.a \in {"bad_name", "bad_payload"}) =>
          /\ chan' = chan
          /\ rt' = rt
          /\ nativePc' = "idle"
          /\ nativeEv' = NoEv
          /\ crashed' = "none"
          /\ lastRt'.kind = lastIn'.kind
          /\ lastIn'.kind = "c2d" => lastRt'.disp = "REJECTED"
          /\ lastIn'.kind = "dm" =>
                /\ lastRt'.status = METHOD_RESPONSE_ERROR
                /\ lastRt'.body = EmptyObject]_vars

C11_Witness ==
    /\ lastIn = [kind |-> "dm", a |-> "bad_payload", b |-> "none"]
    /\ lastRt = dm_response("DecodeError", METHOD_RESPONSE_ERROR, EmptyObject)
    /\ nativePc = "idle"
    /\ chan["dm"] = << >>
    /\ rxOpen["dm"]
    /\ nEvents >= 2

\* C12: a twin-desired callback whose payload is not valid UTF-8 or not valid
\* JSON returns normally without sending anything on the twin channel (or
\* any other), and afterwards a twin callback with a valid payload is still
\* taken and reaches its send.
C12_BadTwinPayloadDropped ==
    /\ [][(/\ nEvents' = nEvents + 1
            /\ lastIn'.kind = "twin"
            /\ lastIn'.b \in {"bad_utf8", "bad_json"}) =>
              /\ chan' = chan
              /\ rxOpen' = rxOpen
              /\ nativePc' = "idle"
              /\ nativeEv' = NoEv
              /\ crashed' = "none"
              /\ lastRt' = lastRt]_vars
    /\ [](/\ lastIn.kind = "twin"
          /\ lastIn.b \in {"bad_utf8", "bad_json"}
          /\ crashed = "none"
          /\ nativePc = "idle"
          /\ nEvents < MaxEvents
          => ENABLED (/\ c_twin_callback
                      /\ nativePc' = "send"
                      /\ nativeEv'.kind = "twin"
                      /\ nativeEv'.val \in {"Complete", "Partial"}))

C12_Witness ==
    /\ lastIn.kind = "twin"
    /\ lastIn.b = "bad_json"
    /\ nativePc = "idle"
    /\ crashed = "none"
    /\ chan["twin"] = << >>
    /\ rxOpen["twin"]
    /\ nEvents = 1

\* C13: the connection-status callback handles every (status, reason) pair
\* without aborting: AUTHENTICATED forwards Authenticated, UNAUTHENTICATED
\* forwards the reason that matches one of the six known reasons and Unknown
\* for any other, and any other status forwards nothing and returns.
C13_ConnectionStatusTotal ==
    [][(nEvents' = nEvents + 1 /\ lastIn'.kind = "conn") =>
          /\ crashed' = "none"
          /\ chan' = chan
          /\ IF lastIn'.a \in {"AUTHENTICATED", "UNAUTHENTICATED"}
             THEN /\ nativePc' = "send"
                  /\ nativeEv'.kind = "conn"
                  /\ nativeEv'.val =
                       IF lastIn'.a = "AUTHENTICATED" THEN "Authenticated"
                       ELSE CASE lastIn'.b = "EXPIRED_SAS_TOKEN" -> "ExpiredSasToken"
                              [] lastIn'.b = "DEVICE_DISABLED" -> "DeviceDisabled"
                              [] lastIn'.b = "BAD_CREDENTIAL" -> "BadCredential"
                              [] lastIn'.b = "RETRY_EXPIRED" -> "RetryExpired"
                              [] lastIn'.b = "NO_NETWORK" -> "NoNetwork"
                              [] lastIn'.b = "COMMUNICATION_ERROR" ->
                                    "CommunicationError"
                              [] OTHER -> "Unknown"
             ELSE /\ nativePc' = "idle"
                  /\ nativeEv' = NoEv]_vars

C13_Witness ==
    /\ lastIn = [kind |-> "conn", a |-> "UNAUTHENTICATED", b |-> "OK"]
    /\ nativePc = "idle"
    /\ crashed = "none"
    /\ \E i \in 1..Len(chan["conn"]) : chan["conn"][i].val = "Unknown"

\* C14: the completion signal of a send is resolved at most once (once it
\* holds a value, that value never changes), and a second invocation of the
\* confirmation callback with the same context neither aborts the process
\* nor changes the signal.
C14_DuplicateCallbackHarmless ==
    /\ [](crashed # "double_free")
    /\ [][\A i \in DOMAIN sends :
            sends[i].sig # "none" => sends'[i].sig = sends[i].sig]_vars

\* C15: on every observer channel whose receiver is alive the events are
\* queued in the order of the callback invocations (event ids count the
\* invocations) and leave the queue only at its head, where the consumer
\* receives them: the queue only ever changes by appending the event of the
\* callback now sending, which is younger than all queued ones, or by the
\* consumer taking the oldest; a callback leaves its send only by such an
\* append.  So nothing is reordered, duplicated or lost.
C15_ChannelKeepsOrder ==
    /\ [](\A k \in ObserverKinds : \A i, j \in 1..Len(chan[k]) :
            i < j => chan[k][i].id < chan[k][j].id)
    /\ [](nativePc \in {"send", "wait"} =>
            \A k \in ObserverKinds : \A i \in 1..Len(chan[k]) :
                chan[k][i].id <= nativeEv.id)
    /\ [][\A k \in ObserverKinds : rxOpen'[k] =>
            \/ chan'[k] = chan[k]
            \/ /\ nativePc = "send"
               /\ nativeEv.kind = k
               /\ nativePc' # "send"
               /\ chan'[k] = Append(chan[k], [id |-> nativeEv.id,
                                              val |-> nativeEv.val])
               /\ \A i \in 1..Len(chan[k]) : chan[k][i].id < nativeEv.id
            \/ /\ chan[k] # << >>
               /\ chan'[k] = Tail(chan[k])
               /\ nativePc' = nativePc]_vars
    /\ [][(nativePc = "send" /\ nativePc' # "send" /\ crashed' = "none") =>
            chan'[nativeEv.kind] =
                Append(chan[nativeEv.kind], [id |-> nativeEv.id,
                                             val |-> nativeEv.val])]_vars

\* two twin events are queued, the older one first, and a third is waiting
C15_Witness ==
    /\ Len(chan["twin"]) = 2
    /\ chan["twin"][1].id = 1
    /\ chan["twin"][2].id = 2
    /\ rxOpen["twin"]
    /\ nativePc = "send"
    /\ nativeEv.kind = "twin"
    /\ nativeEv.id = 3

\* C16 as stated: a round-trip callback that waits for the consumer's reply
\* leaves the wait only when the consumer has replied.
C16_BlockedUntilReply ==
    [][(nativePc = "wait" /\ nativePc' # "wait") => rt = "replied"]_vars

\* C16 as amended: while a round-trip callback waits, no native callback of
\* any kind can be invoked; the wait ends only when the consumer has replied
\* or the reply channel was closed without a reply (the consumer dropped the
\* responder, or dropped the receiver with the event still queued), and then
\* the callback returns; as long as the consumer keeps the responder and does
\* not reply the callback cannot return, nothing else ends the wait.
C16_BlockedUntilReplyOrClose ==
    /\ [](nativePc = "wait" =>
            /\ rt \in {"queued", "held", "replied", "closed"}
            /\ ~ENABLED connection_status_callback(ConnReasons)
            /\ ~ENABLED c_twin_callback
            /\ ~ENABLED c_c2d_message_callback
            /\ ~ENABLED c_direct_method_callback
            /\ ~ENABLED (\E k \in RoundTrip : no_callback(k))
            /\ rt \in {"queued", "held"} => ~ENABLED reply_recv
            /\ rt \in {"replied", "closed"} => ENABLED reply_recv)
    /\ [][(nativePc = "wait" /\ rt \in {"queued", "held"}) =>
            /\ nativePc' = "wait"
            /\ nativeEv' = nativeEv
            /\ nEvents' = nEvents
            /\ lastRt' = lastRt]_vars
    /\ [][(nativePc = "wait" /\ nativePc' # "wait") =>
            /\ rt \in {"replied", "closed"}
            /\ nativePc' = "idle"
            /\ lastRt'.kind = nativeEv.kind]_vars

\* the consumer holds the responder of a C2D message and has not replied;
\* the native layer has more events and every observer is registered
C16_Witness ==
    /\ nativePc = "wait"
    /\ nativeEv.kind = "c2d"
    /\ rt = "held"
    /\ observers = ObserverKinds
    /\ \A k \in ObserverKinds : rxOpen[k] /\ chan[k] = << >>
    /\ nEvents < MaxEvents
    /\ crashed = "none"

\* C17: a twin_async call on a client built without a twin-desired observer
\* returns an error and issues no native twin request; with the observer the
\* call returns Ok exactly when it issued a request, and the native layer's
\* answer to a request enters the send on the twin-desired channel as a
\* Complete twin.
C17_TwinAsyncNeedsObserver ==
    /\ [][nTwinAsync' = nTwinAsync + 1 =>
            /\ "twin" \notin observers =>
                  twinAsyncResult' = "Err" /\ twinRequests' = twinRequests
            /\ "twin" \in observers =>
                  \/ twinAsyncResult' = "Ok" /\ twinRequests' = twinRequests + 1
                  \/ twinAsyncResult' = "Err" /\ twinRequests' = twinRequests
            /\ chan' = chan /\ nativePc' = nativePc]_vars
    /\ [](twinRequests > 0 => "twin" \in observers)
    /\ [][twinRequests' < twinRequests =>
            /\ nativePc' = "send"
            /\ nativeEv'.kind = "twin"
            /\ nativeEv'.val = "Complete"]_vars

\* the full twin that answers the request is the one event on the twin channel
C17_Witness ==
    /\ twinAsyncResult = "Ok"
    /\ twinRequests = 0
    /\ nEvents = 1
    /\ Len(chan["twin"]) = 1
    /\ chan["twin"][1].val = "Complete"

\* C18: a message that was built, encoded by create_outgoing_handle and
\* decoded from the resulting handle by from_incoming_handle, asking for the
\* keys of its properties, has the body, the user properties and the system
\* properties that were given to the builder.
C18_EncodeDecodeRoundTrip ==
    decoded # NoMsg =>
        /\ decoded.direction = "Incoming"
        /\ decoded.body = builder.message
        /\ decoded.properties = builder.properties
        /\ decoded.system_properties = builder.system_properties
        /\ decoded.body = msg.body
        /\ decoded.properties = msg.properties
        /\ decoded.system_properties = msg.system_properties

\* a body with a NUL byte, a user property, and two system properties with
\* different values have made the round trip
C18_Witness ==
    /\ decoded # NoMsg
    /\ decoded.body = << 0, 7 >>
    /\ DOMAIN decoded.properties = {<< 107 >>}
    /\ DOMAIN decoded.system_properties = {"$.mid", "$.ct", "$.ce"}
    /\ decoded.system_properties["$.ct"] = << 118 >>
    /\ decoded.system_properties["$.ce"] = << 119 >>

\* C19: build never panics; it returns an error exactly when some field
\* holds a NUL byte; otherwise, whether or not set_body was called, it
\* returns an Outgoing message without a native handle, having created none.
C19_BuildFailsOnlyOnNul ==
    /\ crashed # "build_unwrap"
    /\ buildResult = "Err" => ~build_ok(builder)
    /\ buildResult = "Ok" =>
          /\ build_ok(builder)
          /\ msg.direction = "Outgoing"
    /\ (msg = NoMsg /\ buildResult # "none") => buildResult = "Err"
    /\ (buildResult = "Ok" /\ createResult = "none" /\ ~dropped) =>
          msg.handle = 0 /\ heap = << >>

\* C20: the native handles created for one message are each destroyed at
\* most once, at most one of them is alive at a time, and when the message
\* has been dropped every one of them has been destroyed exactly once.
C20_HandlesDestroyedOnce ==
    /\ \A h \in DOMAIN heap : heap[h].destroys <= 1
    /\ Cardinality({ h \in DOMAIN heap : heap[h].live }) <= 1
    /\ msg.handle # 0 => heap[msg.handle].live
    /\ dropped => \A h \in DOMAIN heap : heap[h].destroys = 1

C22_ConfirmationStatusDecides ==
    [][ LET i == lastIn'.b
            good == \/ lastIn'.kind = "d2c_confirmation" /\ lastIn'.a = "OK"
                    \/ lastIn'.kind = "reported_twin" /\ lastIn'.a = 204
        IN  /\ (lastIn' # lastIn /\ rx_alive(i)) =>
                  /\ sends'[i].sig = IF good THEN "true" ELSE "false"
                  /\ Len(sends') = Len(sends)
                  /\ sends'[i].res = sends[i].res
            /\ (/\ lastIn' = lastIn
                /\ lastIn.kind \in {"d2c_confirmation", "reported_twin"}
                /\ sends[i].sig # "none"
                /\ sends[i].w = "waiting"
                /\ sends'[i].w # "waiting") =>
                  sends'[i].w = IF good THEN "success" ELSE "failed" ]_vars

\* a waiter ended with failure after its callback ran with a status that is
\* neither 204 nor OK, and nothing was sent again
C22_Witness ==
    /\ \/ lastIn.kind = "d2c_confirmation" /\ lastIn.a = "MESSAGE_TIMEOUT"
       \/ lastIn.kind = "reported_twin" /\ lastIn.a = 200
    /\ sends[lastIn.b].w = "failed"
    /\ Len(sends) = 1

\* C23: no native callback changes the confirmation set, and no interleaving
\* of send_d2c_message, twin_report and shutdown on one client ends in a
\* borrow conflict on the confirmation set.
C23_NoConflictOnConfirmationSet ==
    /\ [](crashed # "already_borrowed")
    /\ [][ (\E i \in DOMAIN sends :
               sends[i].ctx = "boxed" /\ sends'[i].ctx = "reclaimed")
           => confirmation_set' = confirmation_set ]_vars

C25_SpawnReapsCompleted ==
    [][ (Len(sends') = Len(sends) + 1 /\ sends'[Len(sends')].res = "Ok") =>
          LET pending == { i \in confirmation_set : sends[i].w \in Pending }
          IN  /\ confirmation_set' = pending \cup {Len(sends')}
              /\ Cardinality(confirmation_set') = Cardinality(pending) + 1
              /\ \A i \in confirmation_set' \ {Len(sends')} :
                    sends[i].w \notin Completed
              /\ \A i \in pending : sends'[i] = sends[i] ]_vars

\* the third send found one completed and one pending waiter in the set: the
\* set holds the pending one and the new one
C25_Witness ==
    /\ Len(sends) = 3
    /\ sends[1].w = "success"
    /\ sends[2].w \in Pending
    /\ sends[3].w = "spawned"
    /\ confirmation_set = {2, 3}

\* C26: a waiter is aborted only in a step taken when the drain bound of the
\* running shutdown has elapsed, and only if it was pending at that moment;
\* and once the bound has elapsed no time passes before shutdown returns.
C26_AbortOnlyAfterBound ==
    [][ /\ \A i \in DOMAIN sends :
              (sends'[i].w = "aborted" /\ sends[i].w # "aborted") =>
                  /\ sends[i].w \in Pending
                  /\ shutPc = "draining"
                  /\ sleft = 0
                  /\ shutElapsed = get_confirmation_timeout
        /\ (/\ shutPc \in {"draining", "joining"}
            /\ shutElapsed = get_confirmation_timeout) =>
                  shutElapsed' = shutElapsed ]_vars

\* shutdown returned at the bound: the waiter that completed within it was
\* joined, the one still pending was aborted
C26_Witness ==
    /\ shutPc = "returned"
    /\ shutElapsed = get_confirmation_timeout
    /\ Len(sends) = 2
    /\ \E i, j \in DOMAIN sends :
          sends[i].w \in Completed /\ sends[j].w = "aborted"

\* C27: the bound shutdown waits for draining and the timeout of a
\* confirmation waiter are separate values: the bound a shutdown begins with
\* is the drain bound of some setting of the environment under which the
\* two differ.
C27_DrainBoundIsSeparate ==
    (shutPc = "draining" /\ shutElapsed = 0) =>
        \E env \in ConfEnvs \cup {ConfEnv} :
            /\ sleft = drain_bound(env)
            /\ drain_bound(env) # confirmation_wait(env)

\* C28: no boxed context of a send is left without anyone to reclaim it (the
\* native send call rejected the submission after the box was made), and
\* none is reclaimed twice.
C28_ContextReclaimedOnce ==
    /\ \A i \in DOMAIN sends :
          /\ sends[i].ctx \in {"none", "boxed", "reclaimed"}
          /\ sends[i].res = "Err" => sends[i].ctx = "none"
    /\ crashed # "double_free"

\* C29: a send whose submission the native send call rejected returns an
\* error, has no waiter, and leaves the confirmation set and every earlier
\* send as they were.
C29_RejectedSendLeavesSet ==
    [][ (Len(sends') = Len(sends) + 1 /\ sends'[Len(sends')].ctx = "leaked") =>
          /\ sends'[Len(sends')].res = "Err"
          /\ sends'[Len(sends')].w = "none"
          /\ confirmation_set' = confirmation_set
          /\ \A i \in DOMAIN sends : sends'[i] = sends[i] ]_vars

\* a rejected send found a completed waiter in the set and left it there
C29_Witness ==
    /\ Len(sends) = 2
    /\ sends[2].ctx = "leaked"
    /\ sends[2].res = "Err"
    /\ sends[1].w \in Completed
    /\ confirmation_set = {1}

\* C30: a confirmation callback invoked with the context of one send changes
\* nothing of any other send (its waiter, its signal, the time it has left)
\* nor the confirmation set, and does not end the process under the waiters
\* of other sends; and a waiter ends with success or failure only on the
\* value sent with its own context.
C30_CallbackResolvesOwnWaiter ==
    [][ /\ \A i \in DOMAIN sends :
              (sends[i].ctx = "boxed" /\ sends'[i].ctx = "reclaimed") =>
                  /\ \A j \in DOMAIN sends \ {i} : sends'[j] = sends[j]
                  /\ sends'[i].w = sends[i].w
                  /\ confirmation_set' = confirmation_set
                  /\ (\E j \in DOMAIN sends \ {i} : sends[j].w \in Pending)
                        => crashed' = "none"
        /\ \A j \in DOMAIN sends :
              (sends[j].w \in Pending /\ sends'[j].w \in {"success", "failed"}) =>
                  /\ sends[j].ctx = "reclaimed"
                  /\ sends'[j].w = IF sends[j].sig = "true" THEN "success"
                                   ELSE "failed" ]_vars


\* C31: on a constructed client the native callbacks that are registered are
\* those of the observers given to the builder, each with the observer box of
\* the client as its context, and no others; this holds as long as the client
\* lives, whatever operations are called or callbacks run.
C31_RegisteredIffObserver ==
    life.pc = "ready" =>
        /\ nativeClient.handle = "live"
        /\ \A kind \in ObserverKinds :
              /\ registered(kind) <=> kind \in observers
              /\ nativeClient.ctx[kind] = life.contexts[kind]

\* a client built with two of the four observers has sent a message and
\* asked for the twin, and a callback has run
C31_Witness ==
    /\ life.pc = "ready"
    /\ observers = {"conn", "twin"}
    /\ registered("conn") /\ registered("twin")
    /\ ~registered("c2d") /\ ~registered("dm")
    /\ nTwinAsync = 1
    /\ Len(sends) = 1
    /\ "conn" \in life.seen

\* C32: every twin update that is forwarded carries Complete or Partial,
\* Complete for the native state 0 and Partial for 1, and a callback invoked
\* with any other state value forwards nothing.
C32_TwinStateChecked ==
    /\ \A i \in 1..Len(chan["twin"]) :
          chan["twin"][i].val \in {"Complete", "Partial"}
    /\ (nativePc = "send" /\ nativeEv.kind = "twin") =>
          /\ lastIn.a \in {"DEVICE_TWIN_UPDATE_COMPLETE",
                           "DEVICE_TWIN_UPDATE_PARTIAL"}
          /\ nativeEv.val = IF lastIn.a = "DEVICE_TWIN_UPDATE_COMPLETE"
                            THEN "Complete" ELSE "Partial"

\* C33: as long as the native handle lives (up to and during destroy) every
\* registered callback has as its context the live observer box of the
\* client, so no callback finds its context gone; the observer boxes of a
\* client whose handle lives are never replaced, moved or released, they are
\* released only after destroy has returned.
C33_ContextsOutliveHandle ==
    /\ [](nativeClient.handle = "live" =>
            \A kind \in nativeClient.callbacks :
                /\ nativeClient.ctx[kind] # 0
                /\ nativeClient.ctx[kind] = life.contexts[kind])
    /\ [](~life.dangling)
    /\ [][ nativeClient.handle = "live" /\ life.pc # "new" =>
              /\ life'.contexts = life.contexts
              /\ \A kind \in nativeClient.callbacks :
                    kind \in nativeClient'.callbacks =>
                        nativeClient'.ctx[kind] = nativeClient.ctx[kind] ]_vars
    /\ [][ life'.contexts # life.contexts /\ life.contexts # NoContexts =>
              nativeClient.handle = "destroyed" /\ nativeClient.callbacks = {} ]_vars

\* every one of the four callbacks ran while the handle lived and found its
\* observer; the client is now dropped, handle first, observers after
C33_Witness ==
    /\ life.pc = "gone"
    /\ life.result = "Ok"
    /\ life.seen = observers
    /\ observers = ObserverKinds
    /\ nativeClient.handle = "destroyed"
    /\ life.contexts = NoContexts

\* C34: every native handle that was created is destroyed exactly once, when
\* its client is dropped, also when construction fails after the creation;
\* destroy is not called when the creation failed; and whenever the
\* application holds a client on which it can call an operation the handle
\* of that client is alive.
C34_HandleDestroyedOnce ==
    /\ [](nativeClient.destroyed <= nativeClient.created)
    /\ [](nativeClient.handle = "live" <=>
             life.pc \in {"ready", "unwinding", "destroying"})
    /\ [](nativeClient.handle = "live" =>
             nativeClient.destroyed = nativeClient.created - 1)
    /\ [](life.pc \in {"new", "failed", "destroyed", "gone"} =>
             nativeClient.destroyed = nativeClient.created)
    /\ [][ nativeClient'.destroyed # nativeClient.destroyed =>
              /\ nativeClient'.destroyed = nativeClient.destroyed + 1
              /\ nativeClient.handle = "live"
              /\ nativeClient'.handle = "destroyed" ]_vars
    /\ [][ life'.pc = "failed" /\ life.pc # "failed" =>
              /\ nativeClient'.created = nativeClient.created
              /\ nativeClient'.destroyed = nativeClient.destroyed ]_vars
    /\ [][ (nTwinAsync' # nTwinAsync \/ sends' # sends) =>
              nativeClient.handle = "live" ]_vars

\* two handles were created; the construction of the second client failed
\* after its handle was created (in set_callbacks or set_options), and both
\* handles have been destroyed
C34_Witness ==
    /\ client = "IotHubClient"
    /\ life.n = 2
    /\ life.pc = "gone"
    /\ life.result = "Err"
    /\ nativeClient.created = 2
    /\ nativeClient.destroyed = 2
    /\ nTwinAsync = 1

\* C35: a native callback that finds the receiving end of its observer
\* channel dropped does not end the process: with a receiver gone, no
\* callback of any of the four kinds has panicked in its send.
C35_ClosedChannelNoAbort ==
    (\E kind \in ObserverKinds : ~rxOpen[kind]) =>
        crashed # "blocking_send_expect"

\* C36: whenever create_outgoing_handle has been called on a message, its
\* assertion held: the process was not ended by it, whichever message the
\* application passed to send_d2c_message, one it received included.
C36_DirectionAssertionHolds ==
    (decoded # NoMsg \/ msg # NoMsg) => crashed # "assert_direction"

\* C37: when shutdown returns the confirmation set is empty; after that the
\* set changes only by a send, so a second shutdown without a send in between
\* begins with the empty set, and a shutdown running on the empty set aborts
\* nothing and leaves it empty; after shutdown has returned both a further
\* shutdown and a send can be called, and a send that returns Ok is tracked
\* by a newly spawned waiter.
C37_ShutdownIdempotent ==
    /\ [][ shutPc # "returned" /\ shutPc' = "returned" =>
              confirmation_set' = {} ]_vars
    /\ [][ shutPc = "returned" /\ confirmation_set' # confirmation_set =>
              Len(sends') = Len(sends) + 1 ]_vars
    /\ [][ (shutPc \in {"draining", "joining"} /\ confirmation_set = {}) =>
              /\ confirmation_set' = {}
              /\ Len(sends') = Len(sends)
              /\ \A i \in DOMAIN sends :
                    sends'[i].w = "aborted" => sends[i].w = "aborted" ]_vars
    /\ []((shutPc = "returned" /\ crashed = "none") =>
              /\ ENABLED shutdown_begin
              /\ Len(sends) < MaxSends => ENABLED send_d2c_message)
    /\ [][ (/\ shutPc = "returned"
            /\ Len(sends') = Len(sends) + 1
            /\ sends'[Len(sends')].res = "Ok") =>
              /\ Len(sends') \in confirmation_set'
              /\ sends'[Len(sends')].w = "spawned"
              /\ crashed' = "none"
              /\ shutPc' = "returned" ]_vars

\* a first shutdown ran to its bound and aborted the waiter of send 1; a
\* second shutdown, called with the set empty, returned at once; the send
\* made after it is tracked
C37_Witness ==
    /\ shutPc = "returned"
    /\ shutElapsed = 0
    /\ Len(sends) = 2
    /\ sends[1].w = "aborted"
    /\ sends[2].res = "Ok"
    /\ sends[2].w = "spawned"
    /\ confirmation_set = {2}

\* C38: IoTHub_Init runs at most once in a process; once it has run, its
\* recorded result is never changed, and every construction after the first
\* gets from iothub_init what the first got: Ok when IoTHub_Init returned 0,
\* the error when it did not.
C38_InitOnce ==
    /\ [](client = "IotHubClient" => process.init_runs <= 1)
    /\ [](client = "IotHubClient" /\ life.init # "none" =>
            /\ process.once
            /\ process.init_runs = 1
            /\ life.init = "Ok" <=> process.IOTHUB_INIT_RESULT = 0)
    /\ [][ client = "IotHubClient" /\ process.once =>
              /\ process' = process
              /\ life'.init = life.init ]_vars

\* the second construction found the error of the first initialisation
C38_Witness ==
    /\ client = "IotHubClient"
    /\ life.n = 2
    /\ life.init = "Err"
    /\ life.pc = "failed"
    /\ process.init_runs = 1
    /\ process.IOTHUB_INIT_RESULT = 1

\* C39: in the client of lib.rs, once iot_hub_init has returned Ok every
\* later call returns Ok, and IoTHub_Init runs at most once.
C39_LibInitIdempotent ==
    /\ [](client = "Callback" => process.init_runs <= 1)
    /\ [][ client = "Callback" /\ life.init = "Ok" => life'.init = "Ok" ]_vars

\* C40: in the EventHandler-based client the connection-status callback has
\* handled every (status, reason) pair it was invoked with, an unrecognised
\* status or reason included, without a panic.
C40_EhConnectionStatusTotal ==
    lastIn.kind = "eh_conn" => crashed # "eh_unknown_connection_status"
=============================================================================
